---- MODULE Spec2Model ----
(***************************************************************************)
(* Model of the krot key rotator: the Rotator (Start, Stop, Rotate, GetKey), *)
(* its RotationController, the KeyIDProvider, the in-memory KeyStorage and *)
(* the keyCleaner with its background worker.                              *)
(*                                                                         *)
(* Time is a discrete clock `now`.  Every goroutine is a process with a    *)
(* program counter; a step is one access to shared state.  The cleaner's   *)
(* Add takes no lock, so its slice updates are modelled as separate load   *)
(* and store steps that interleave with the worker's.                      *)
(***************************************************************************)
EXTENDS Integers, Sequences, FiniteSets, TLC

\* ---------------------------------------------------------------- bounds
\* the goroutines there are: caller threads, and one periodic loop and one
\* cleaner worker for every Start
NumCallers == 2
MaxStarts == 2
\* the settings tried
MaxKeyCount == 2
MaxDuration == 1
\* Spec, the Rotator with its cleaner on: threads, Starts, rotations, ticks
SpecCallers == 1
SpecStarts == 1
SpecRotations == 2
SpecTime == 1
\* RotatorSpec, the Rotator with its cleaner off
RotCallers == 2
RotStarts == 1
RotRotations == 2
RotTime == 1
\* SchedSpec, the keyCleaner on its own: Starts, Adds, ticks
SchedStarts == 1
SchedAdds == 3
SchedTime == 2
\* FairSpec, the Rotator with its cleaner on and one key a batch, scheduled
\* fairly
FairCallers == 1
FairStarts == 1
FairRotations == 2
FairTime == 2
\* RestartSpec, the Rotator started more than once: threads, Starts,
\* rotations, ticks
RestartCallers == 2
RestartStarts == 2
RestartRotations == 3
RestartTime == 1
\* SeqSpec, the Rotator called by one thread, call after call: threads,
\* Starts, rotations, ticks
SeqCallers == 1
SeqStarts == 2
SeqRotations == 3
SeqTime == 1
\* FaultSpec, the Rotator over a storage that can fail: threads, Starts,
\* rotations, ticks, failures of storage.Add
FaultCallers == 2
FaultStarts == 1
FaultRotations == 3
FaultTime == 1
FaultFails == 1
\* ModeSpec, a Rotator whose settings name a KeyProvidingMode: threads,
\* Starts, rotations, ticks
ModeCallers == 1
ModeStarts == 1
ModeRotations == 2
ModeTime == 1
\* ConfigSpec, a Rotator that is reconfigured: threads, Starts, rotations,
\* ticks, calls of SetSettings, SetStorage and SetGenerator
ConfigCallers == 1
ConfigStarts == 1
ConfigRotations == 2
ConfigTime == 1
MaxSetterCalls == 2
\* HookSpec, a Rotator with hooks: threads, Starts, rotations, ticks, hooks
\* registered in all, hooks of one registration call
HookCallers == 1
HookStarts == 1
HookRotations == 2
HookTime == 1
MaxHooks == 3
MaxHooksPerCall == 2
\* StoreSpec, the in-memory storage on its own: ids of keys, ticks (the
\* Expires of a key is one of the instants of the clock)
MaxStoreKeys == 3
StoreTime == 2
\* ProviderSpec, a KeyIDProvider used on its own: ids of a set, Sets (the one
\* of NewKeyIDProvider included), Gets after a Set
MaxIds == 6
MaxSets == 3
MaxGets == 6

\* ------------------------------------------------------------- processes
Callers == {<<"c", i>> : i \in 1..NumCallers}
Loops == {<<"l", i>> : i \in 1..MaxStarts}
Workers == {<<"w", i>> : i \in 1..MaxStarts}
Procs == Callers \cup Loops \cup Workers
NoProc == <<"none", 0>>
\* the thread that uses a provider or a storage on its own
User == <<"c", 1>>

\* ------------------------------------------------------------ identifiers
\* string(keyID): the raw random bytes handed to the cleaner
RawID(n) == <<"raw", n>>
\* fmt.Sprintf("%s:%x", r.id, keyID): the ID of the stored key
KeyID(n) == <<"kr", n>>
NoID == <<"none", 0>>

\* ------------------------------------------------------ KeyProvidingMode
AutoKeyProvidingMode == 0
RandomKeyProvidingMode == 1
NonRepeatingKeyProvidingMode == 2
CyclicKeyProvidingMode == 3
NonRepeatingCyclicKeyProvidingMode == 4

VARIABLES
  now,          \* the clock (time.Now)
  settings,     \* Rotator.settings
  status,       \* Rotator.status
  state,        \* Rotator.state
  controller,   \* RotationController: [ctx, cancelled, mutex]
  storage,      \* inMemoryStorage.keys, as a set of Key records
  idProvider,   \* Rotator.idProvider
  cleaner,      \* keyCleaner: [ids, expirations, ctx, cancelled, locker, waiters]
  pc,           \* position of every goroutine
  rot,          \* locals of Rotate, per goroutine
  add,          \* locals of keyCleaner.Add, per goroutine
  wk,           \* locals of keyCleaner.run, per worker
  until,        \* wake-up time of time.Sleep in Rotator.run, per loop
  res,          \* result of the last call, per caller
  count,        \* [keys, rotations, starts, fails]: ids drawn, Rotate and
                \* Start calls, failed calls of storage.Add
  hookRuns,     \* number of runs of each hook point
  addLog,       \* the calls keyCleaner.Add has received
  activeBatch,  \* ids installed by the last Rotate that left its lock
  limit,        \* the bounds of the run: [callers, starts, rotations, time,
                \* adds, fails]
  generator,    \* Rotator.generator
  hooks,        \* the Rotator's hook lists: [onStart, onStop, before, after]
  provUse       \* the use made of a KeyIDProvider on its own: [mode, sets,
                \* log], the mode it was created with, the Sets made and
                \* the results of the Gets since the last Set

vars == <<now, settings, status, state, controller, storage, idProvider,
          cleaner, pc, rot, add, wk, until, res, count, hookRuns, addLog,
          activeBatch, limit,
                 generator, hooks, provUse>>

\* ------------------------------------------------------------- helpers
SeqRange(s) == {s[i] : i \in 1..Len(s)}
Tail0(s) == IF Len(s) = 0 THEN s ELSE Tail(s)

\* ---------------------------------------------------------- KeyStorage
StorageIDs(st) == {k.ID : k \in st}

\* inMemoryStorage.Get
StorageGet(st, id) ==
  IF id \in StorageIDs(st)
  THEN [err |-> "nil", key |-> CHOOSE k \in st : k.ID = id]
  ELSE [err |-> "ErrKeyNotFound", key |-> [ID |-> NoID, Expires |-> 0]]

\* a storage whose Add replaces what it holds
StorageAddReplacing(st, keys) == {keys[i] : i \in 1..Len(keys)}

\* inMemoryStorage.Add: upsert of every key with a non-empty ID
StorageAdd(st, keys) ==
  LET newIDs == {keys[i].ID : i \in 1..Len(keys)} \ {NoID}
      last(id) == CHOOSE i \in 1..Len(keys) :
                    /\ keys[i].ID = id
                    /\ \A j \in (i+1)..Len(keys) : keys[j].ID # id
  IN {k \in st : k.ID \notin newIDs} \cup {keys[last(id)] : id \in newIDs}

\* inMemoryStorage.Delete
StorageDelete(st, id) == {k \in st : k.ID # id}

\* Key.Expired at instant t: return k.Expires.After(time.Now())
Expired(k, t) == k.Expires > t

\* inMemoryStorage.ClearDeprecated at instant t: delete every entry whose
\* value.Expired() (Add stores no nil value)
ClearDeprecated(st, t) == {k \in st : ~Expired(k, t)}

\* ------------------------------------------------------- KeyIDProvider
\* KeyIDProvider.reloadAvailableIndexes
ReloadAvailableIndexes(n) == [i \in 1..n |-> i - 1]

\* the zero value of KeyIDProvider, as held in Rotator.idProvider
ZeroProvider ==
  [mode |-> AutoKeyProvidingMode, ids |-> <<>>, availableIndexes |-> <<>>,
   lastSelectedIndex |-> 0, round |-> 0]

\* a Set that keeps the ids of the batch before
ProviderSetKeeping(P, ids) ==
  [P EXCEPT !.ids = P.ids \o ids,
            !.availableIndexes = ReloadAvailableIndexes(Len(P.ids) + Len(ids)),
            !.mode = RandomKeyProvidingMode]

\* KeyIDProvider.Set
ProviderSet(P, ids) ==
  LET n == Len(ids)
      m == IF P.mode = AutoKeyProvidingMode
           THEN IF n = 1 THEN RandomKeyProvidingMode
                ELSE IF n \in 2..5 THEN NonRepeatingKeyProvidingMode
                ELSE NonRepeatingCyclicKeyProvidingMode
           ELSE P.mode
  IN [P EXCEPT !.ids = ids,
               !.availableIndexes = ReloadAvailableIndexes(n),
               !.mode = m]

GetOut(id, err, P) == [id |-> id, err |-> err, p |-> P]

\* ids[index] with a 0-based index; out of range is a run-time panic
ProviderAt(P, index, Q) ==
  IF index >= 0 /\ index < Len(P.ids)
  THEN GetOut(P.ids[index + 1], "nil", Q)
  ELSE GetOut(NoID, "panic", P)

\* a NonRepeatingCyclic draw that does not avoid the last selected index
ProviderGetNRCRepeating(P, avail, r) ==
  LET n == Len(avail)
      index == IF n > 1 THEN r ELSE 0
      chosen == avail[index + 1]
      swapped == [avail EXCEPT ![index + 1] = avail[n], ![n] = chosen]
  IN ProviderAt(P, chosen,
                [P EXCEPT !.lastSelectedIndex = chosen,
                          !.availableIndexes = SubSeq(swapped, 1, n - 1)])

\* a NonRepeatingCyclic draw that leaves the chosen index in the pool
ProviderGetNRCKeeping(P, avail, r) ==
  LET n == Len(avail)
      index == IF n > 1
               THEN IF avail[r + 1] = P.lastSelectedIndex THEN n - 1 ELSE r
               ELSE 0
      chosen == avail[index + 1]
      swapped == [avail EXCEPT ![index + 1] = avail[n], ![n] = chosen]
  IN ProviderAt(P, chosen,
                [P EXCEPT !.lastSelectedIndex = chosen,
                          !.availableIndexes = swapped])

\* KeyIDProvider.Get, NonRepeatingCyclicKeyProvidingMode branch, for the
\* random draw r; avail is the pool after the optional reload
ProviderGetNRC(P, avail, r) ==
  LET n == Len(avail)
      index == IF n > 1
               THEN IF avail[r + 1] = P.lastSelectedIndex THEN n - 1 ELSE r
               ELSE 0
      chosen == avail[index + 1]
      swapped == [avail EXCEPT ![index + 1] = avail[n], ![n] = chosen]
  IN ProviderAt(P, chosen,
                [P EXCEPT !.lastSelectedIndex = chosen,
                          !.availableIndexes = SubSeq(swapped, 1, n - 1)])

\* a Get whose NonRepeating draw does not step over the last selected index
ProviderGetRepeating(P) ==
  LET n == Len(P.ids) IN
  IF n = 0 THEN {GetOut(NoID, "ErrNoKeysGenerated", P)}
  ELSE IF n = 1 THEN {GetOut(P.ids[1], "nil", P)}
  ELSE IF P.mode = RandomKeyProvidingMode
       THEN {GetOut(P.ids[r + 1], "nil", P) : r \in 0..(n - 1)}
  ELSE IF P.mode = NonRepeatingKeyProvidingMode
       THEN {ProviderAt(P, r, [P EXCEPT !.lastSelectedIndex = r])
             : r \in 0..(n - 2)}
  ELSE IF P.mode = CyclicKeyProvidingMode
       THEN LET round == IF P.round = n THEN 0 ELSE P.round
            IN {ProviderAt(P, round, [P EXCEPT !.round = round + 1])}
  ELSE IF P.mode = NonRepeatingCyclicKeyProvidingMode
       THEN LET avail == IF Len(P.availableIndexes) = 0
                         THEN ReloadAvailableIndexes(n)
                         ELSE P.availableIndexes
            IN {ProviderGetNRC(P, avail, r)
                : r \in 0..(IF Len(avail) > 1 THEN Len(avail) - 2 ELSE 0)}
  ELSE {GetOut(NoID, "ErrInvalidKeyProvidingMode", P)}

\* a Get that answers an empty id set with an empty id and no error
ProviderGetEmptyOk(P) ==
  LET n == Len(P.ids) IN
  IF n = 0 THEN {GetOut(NoID, "nil", P)}
  ELSE IF n = 1 THEN {GetOut(P.ids[1], "nil", P)}
  ELSE IF P.mode = RandomKeyProvidingMode
       THEN {GetOut(P.ids[r + 1], "nil", P) : r \in 0..(n - 1)}
  ELSE IF P.mode = NonRepeatingKeyProvidingMode
       THEN {LET index == IF r >= P.lastSelectedIndex THEN r + 1 ELSE r
             IN ProviderAt(P, index, [P EXCEPT !.lastSelectedIndex = index])
             : r \in 0..(n - 2)}
  ELSE IF P.mode = CyclicKeyProvidingMode
       THEN LET round == IF P.round = n THEN 0 ELSE P.round
            IN {ProviderAt(P, round, [P EXCEPT !.round = round + 1])}
  ELSE IF P.mode = NonRepeatingCyclicKeyProvidingMode
       THEN LET avail == IF Len(P.availableIndexes) = 0
                         THEN ReloadAvailableIndexes(n)
                         ELSE P.availableIndexes
            IN {ProviderGetNRC(P, avail, r)
                : r \in 0..(IF Len(avail) > 1 THEN Len(avail) - 2 ELSE 0)}
  ELSE {GetOut(NoID, "ErrInvalidKeyProvidingMode", P)}

\* KeyIDProvider.Get: the set of outcomes over the random draws
ProviderGet(P) ==
  LET n == Len(P.ids) IN
  IF n = 0 THEN {GetOut(NoID, "ErrNoKeysGenerated", P)}
  ELSE IF n = 1 THEN {GetOut(P.ids[1], "nil", P)}
  ELSE IF P.mode = RandomKeyProvidingMode
       THEN {GetOut(P.ids[r + 1], "nil", P) : r \in 0..(n - 1)}
  ELSE IF P.mode = NonRepeatingKeyProvidingMode
       THEN {LET index == IF r >= P.lastSelectedIndex THEN r + 1 ELSE r
             IN ProviderAt(P, index, [P EXCEPT !.lastSelectedIndex = index])
             : r \in 0..(n - 2)}
  ELSE IF P.mode = CyclicKeyProvidingMode
       THEN LET round == IF P.round = n THEN 0 ELSE P.round
            IN {ProviderAt(P, round, [P EXCEPT !.round = round + 1])}
  ELSE IF P.mode = NonRepeatingCyclicKeyProvidingMode
       THEN LET avail == IF Len(P.availableIndexes) = 0
                         THEN ReloadAvailableIndexes(n)
                         ELSE P.availableIndexes
            IN {ProviderGetNRC(P, avail, r)
                : r \in 0..(IF Len(avail) > 1 THEN Len(avail) - 2 ELSE 0)}
  ELSE {GetOut(NoID, "ErrInvalidKeyProvidingMode", P)}

\* --------------------------------------------------- RotationController
\* RotationController.Disposed
Disposed(c) == c.ctx \in c.cancelled

\* RotationController.TurnOn: a fresh context replaces the current one
TurnOn(c) == [c EXCEPT !.ctx = c.ctx + 1]

\* RotationController.TurnOff: cancel the current context
TurnOff(c) == [c EXCEPT !.cancelled = c.cancelled \cup {c.ctx}]

\* a lock that excludes nobody
CanLockAlways(c) == TRUE

\* RotationController.Lock can be taken
CanLock(c) == c.mutex = NoProc

\* ------------------------------------------------------ local defaults
NoRot ==
  [i |-> 0, n |-> 0, keys |-> <<>>, err |-> FALSE, ret |-> "nil",
   from |-> "none"]
NoAdd == [id |-> NoID, exp |-> 0, tmpIds |-> <<>>, tmpExp |-> <<>>,
          from |-> "none"]
NoWk == [exp |-> 0, id |-> NoID, tmpIds |-> <<>>, tmpExp |-> <<>>,
         ctx |-> 0]
NoRes == [op |-> "none", err |-> "nil", id |-> NoID, exp |-> 0]

\* an unrecovered run-time panic ends the whole program
Panic == [q \in Procs |-> "panic"]

\* ------------------------------------------------------------- settings
\* the settings RotatorSettings.Validate accepts (the mode is not read by
\* the Rotator, whose idProvider is the zero value)
ValidSettings ==
  [RotationKeyCount : 1..MaxKeyCount,
   RotationInterval : 0..MaxDuration,
   KeyExpiration : 0..MaxDuration,
   AutoClearExpiredKeys : BOOLEAN]

\* the settings handed to Validate: those of ValidSettings with a mode, and
\* values one below the accepted range of every field
SettingsTried ==
  [RotationKeyCount : 0..MaxKeyCount,
   RotationInterval : (0 - 1)..MaxDuration,
   KeyExpiration : (0 - 1)..MaxDuration,
   AutoClearExpiredKeys : BOOLEAN,
   KeyProvidingMode : (AutoKeyProvidingMode - 1)..
                        (NonRepeatingCyclicKeyProvidingMode + 1)]

\* RotatorSettings.Validate: nil, or the kind of the error
Validate(s) ==
  IF s.RotationKeyCount < 1 THEN "ErrInvalidRotationKeyCount"
  ELSE IF s.RotationInterval < 0 THEN "ErrInvalidRotationInterval"
  ELSE IF s.KeyExpiration < 0 THEN "ErrInvalidKeyExpiration"
  ELSE IF \/ s.KeyProvidingMode < AutoKeyProvidingMode
          \/ s.KeyProvidingMode > NonRepeatingCyclicKeyProvidingMode
       THEN "ErrInvalidKeyProvidingMode"
  ELSE "nil"

InitCommon ==
  /\ now = 0
  /\ status = "Stopped"
  /\ state = "Idle"
  /\ controller = [ctx |-> 1, cancelled |-> {}, mutex |-> NoProc]
  /\ idProvider = ZeroProvider
  /\ cleaner = [ids |-> <<>>, expirations |-> <<>>, ctx |-> 0,
                cancelled |-> {}, locker |-> NoProc, waiters |-> <<>>]
  /\ pc = [p \in Procs |-> IF p \in Callers THEN "idle" ELSE "off"]
  /\ rot = [p \in Procs |-> NoRot]
  /\ add = [p \in Procs |-> NoAdd]
  /\ wk = [w \in Workers |-> NoWk]
  /\ until = [l \in Loops |-> 0]
  /\ res = [p \in Callers |-> NoRes]
  /\ count = [keys |-> 0, rotations |-> 0, starts |-> 0, fails |-> 0,
              sets |-> 0, regs |-> 0]
  /\ hookRuns = [onStart |-> 0, onStop |-> 0, before |-> 0, after |-> 0]
  /\ addLog = <<>>
  /\ activeBatch = {}
  /\ generator = "default"
  /\ hooks = [onStart |-> <<>>, onStop |-> <<>>, before |-> <<>>,
              after |-> <<>>]
  /\ provUse = [mode |-> AutoKeyProvidingMode, sets |-> 0, log |-> <<>>]

Limit(c, s, r, t, a, f) ==
  [callers |-> c, starts |-> s, rotations |-> r, time |-> t, adds |-> a,
   fails |-> f]

\* New / NewWithSettings, with AutoClearExpiredKeys and a periodic loop that
\* sleeps
Init ==
  /\ InitCommon
  /\ storage = {}
  /\ settings \in {s \in ValidSettings :
                     s.AutoClearExpiredKeys /\ s.RotationInterval > 0}
  /\ limit = Limit(SpecCallers, SpecStarts, SpecRotations, SpecTime, 0, 0)

\* New / NewWithSettings, without AutoClearExpiredKeys
RotatorInit ==
  /\ InitCommon
  /\ storage = {}
  /\ settings \in {s \in ValidSettings : ~s.AutoClearExpiredKeys}
  /\ limit = Limit(RotCallers, RotStarts, RotRotations, RotTime, 0, 0)

\* New / NewWithSettings, with AutoClearExpiredKeys and batches of one key
FairInit ==
  /\ InitCommon
  /\ storage = {}
  /\ settings \in {s \in ValidSettings :
                     /\ s.AutoClearExpiredKeys
                     /\ s.RotationInterval > 0
                     /\ s.RotationKeyCount = 1}
  /\ limit = Limit(FairCallers, FairStarts, FairRotations, FairTime, 0, 0)

\* NewWithSettings without AutoClearExpiredKeys, with batches of one key and
\* no sleep between the rotations
RestartInit ==
  /\ InitCommon
  /\ storage = {}
  /\ settings = [RotationKeyCount |-> 1, RotationInterval |-> 0,
                 KeyExpiration |-> 0, AutoClearExpiredKeys |-> FALSE]
  /\ limit = Limit(RestartCallers, RestartStarts, RestartRotations,
                   RestartTime, 0, 0)

\* NewWithSettings without AutoClearExpiredKeys, with batches of one key
SeqInit ==
  /\ InitCommon
  /\ storage = {}
  /\ settings \in {s \in ValidSettings :
                     /\ ~s.AutoClearExpiredKeys
                     /\ s.RotationKeyCount = 1
                     /\ s.KeyExpiration = 0}
  /\ limit = Limit(SeqCallers, SeqStarts, SeqRotations, SeqTime, 0, 0)

\* NewWithSettings without AutoClearExpiredKeys, with batches of two keys,
\* and SetStorage with a KeyStorage whose Add can fail
FaultInit ==
  /\ InitCommon
  /\ storage = {}
  /\ settings = [RotationKeyCount |-> 2, RotationInterval |-> 0,
                 KeyExpiration |-> 0, AutoClearExpiredKeys |-> FALSE]
  /\ limit = Limit(FaultCallers, FaultStarts, FaultRotations, FaultTime, 0,
                   FaultFails)

\* NewWithSettings with settings that name a KeyProvidingMode, one caller
ModeInit ==
  /\ InitCommon
  /\ storage = {}
  /\ settings \in {s \in SettingsTried :
                     /\ Validate(s) = "nil"
                     /\ ~s.AutoClearExpiredKeys
                     /\ s.RotationInterval = 0
                     /\ s.KeyExpiration = 0}
  /\ limit = Limit(ModeCallers, ModeStarts, ModeRotations, ModeTime, 0, 0)

\* NewWithSettings, one caller; the setters are among the calls
ConfigInit ==
  /\ InitCommon
  /\ storage = {}
  /\ settings = [RotationKeyCount |-> 1, RotationInterval |-> 0,
                 KeyExpiration |-> 0, AutoClearExpiredKeys |-> FALSE,
                 KeyProvidingMode |-> AutoKeyProvidingMode]
  /\ limit = Limit(ConfigCallers, ConfigStarts, ConfigRotations, ConfigTime,
                   0, 0)

\* New, one caller; the registrations of hooks are among the calls
HookInit ==
  /\ InitCommon
  /\ storage = {}
  /\ settings = [RotationKeyCount |-> 1, RotationInterval |-> 0,
                 KeyExpiration |-> 0, AutoClearExpiredKeys |-> FALSE]
  /\ limit = Limit(HookCallers, HookStarts, HookRotations, HookTime, 0, 0)

\* NewKeyStorage: a storage on its own, empty
StoreInit ==
  /\ InitCommon
  /\ storage = {}
  /\ settings = [RotationKeyCount |-> 1, RotationInterval |-> 0,
                 KeyExpiration |-> 0, AutoClearExpiredKeys |-> FALSE]
  /\ limit = Limit(1, 0, 0, StoreTime, 0, 0)

\* no Rotator: the provider is created by the first step
ProviderInit ==
  /\ InitCommon
  /\ storage = {}
  /\ settings = [RotationKeyCount |-> 1, RotationInterval |-> 0,
                 KeyExpiration |-> 0, AutoClearExpiredKeys |-> FALSE]
  /\ limit = Limit(1, 0, 0, 0, 0, 0)

\* newKeyCleaner(storage) over a storage that holds the keys to be registered
SchedInit ==
  /\ InitCommon
  /\ storage = {[ID |-> RawID(n), Expires |-> 0] : n \in 1..SchedAdds}
  /\ settings = [RotationKeyCount |-> 1, RotationInterval |-> 0,
                 KeyExpiration |-> 0, AutoClearExpiredKeys |-> TRUE]
  /\ limit = Limit(1, SchedStarts, 0, SchedTime, SchedAdds, 0)

\* ----------------------------------------------------------------- clock
Tick ==
  /\ now < limit.time
  /\ now' = now + 1
  /\ UNCHANGED <<settings, status, state, controller, storage, idProvider,
                 cleaner, pc, rot, add, wk, until, res, count, hookRuns,
                 addLog, activeBatch, limit,
                 generator, hooks, provUse>>

\* ------------------------------------------------------- keyCleaner.Add
\* where Add returns to: the key loop of Rotate, or the caller
AddReturn(p) ==
  IF add[p].from = "rot"
  THEN IF rot[p].i < settings.RotationKeyCount THEN "rot_gen"
       ELSE "rot_persist"
  ELSE "idle"

\* if expiration.Before(time.Now()) { c.storage.Delete(id); return }
AddCheck(p) ==
  /\ pc[p] = "add_check"
  /\ addLog' = Append(addLog, [id |-> add[p].id, exp |-> add[p].exp,
                               past |-> add[p].exp < now])
  /\ IF add[p].exp < now
     THEN /\ storage' = StorageDelete(storage, add[p].id)
          /\ pc' = [pc EXCEPT ![p] = AddReturn(p)]
          /\ add' = [add EXCEPT ![p] = NoAdd]
     ELSE /\ pc' = [pc EXCEPT ![p] = "add_ids_load"]
          /\ UNCHANGED <<storage, add>>
  /\ UNCHANGED <<now, settings, status, state, controller, idProvider,
                 cleaner, rot, wk, until, res, count, hookRuns,
                 activeBatch, limit,
                 generator, hooks, provUse>>

\* c.ids = append(c.ids, id): the load of c.ids
AddIdsLoad(p) ==
  /\ pc[p] = "add_ids_load"
  /\ add' = [add EXCEPT ![p].tmpIds = cleaner.ids]
  /\ pc' = [pc EXCEPT ![p] = "add_ids_store"]
  /\ UNCHANGED <<now, settings, status, state, controller, storage,
                 idProvider, cleaner, rot, wk, until, res, count, hookRuns,
                 addLog, activeBatch, limit,
                 generator, hooks, provUse>>

\* c.ids = append(c.ids, id): the store to c.ids
AddIdsStore(p) ==
  /\ pc[p] = "add_ids_store"
  /\ cleaner' = [cleaner EXCEPT !.ids = Append(add[p].tmpIds, add[p].id)]
  /\ add' = [add EXCEPT ![p].tmpIds = <<>>]
  /\ pc' = [pc EXCEPT ![p] = "add_exp_load"]
  /\ UNCHANGED <<now, settings, status, state, controller, storage,
                 idProvider, rot, wk, until, res, count, hookRuns, addLog, activeBatch, limit,
                 generator, hooks, provUse>>

\* c.expirations = append(c.expirations, expiration): the load
AddExpLoad(p) ==
  /\ pc[p] = "add_exp_load"
  /\ add' = [add EXCEPT ![p].tmpExp = cleaner.expirations]
  /\ pc' = [pc EXCEPT ![p] = "add_exp_store"]
  /\ UNCHANGED <<now, settings, status, state, controller, storage,
                 idProvider, cleaner, rot, wk, until, res, count, hookRuns,
                 addLog, activeBatch, limit,
                 generator, hooks, provUse>>

\* c.expirations = append(c.expirations, expiration): the store
AddExpStore(p) ==
  /\ pc[p] = "add_exp_store"
  /\ cleaner' = [cleaner EXCEPT
                   !.expirations = Append(add[p].tmpExp, add[p].exp)]
  /\ add' = [add EXCEPT ![p].tmpExp = <<>>]
  /\ pc' = [pc EXCEPT ![p] = "add_signal"]
  /\ UNCHANGED <<now, settings, status, state, controller, storage,
                 idProvider, rot, wk, until, res, count, hookRuns, addLog, activeBatch, limit,
                 generator, hooks, provUse>>

\* sync.Cond.Signal: wake the longest-waiting goroutine, if there is one
CondSignal(c) ==
  IF Len(c.waiters) = 0 THEN c ELSE [c EXCEPT !.waiters = Tail(c.waiters)]

\* if len(c.ids) == 1 { c.newKeyAdded.Signal() }, then Add returns
AddSignal(p) ==
  /\ pc[p] = "add_signal"
  /\ LET sig == Len(cleaner.ids) = 1 /\ Len(cleaner.waiters) > 0
         w == Head(cleaner.waiters)
     IN /\ cleaner' = IF sig THEN CondSignal(cleaner) ELSE cleaner
        /\ pc' = [q \in Procs |->
                    IF q = p THEN AddReturn(p)
                    ELSE IF sig /\ q = w THEN "w_wake"
                    ELSE pc[q]]
  /\ add' = [add EXCEPT ![p] = NoAdd]
  /\ UNCHANGED <<now, settings, status, state, controller, storage,
                 idProvider, rot, wk, until, res, count, hookRuns, addLog, activeBatch, limit,
                 generator, hooks, provUse>>

\* ------------------------------------------------------ keyCleaner.Start
\* the first goroutine slot not yet used
FreeProc(S) == CHOOSE p \in S : pc[p] = "off" /\ \A q \in S : pc[q] = "off" => q[2] >= p[2]

\* c.ctx, c.cancel = context.WithCancel(ctx); go c.run()
CleanerStart(c) == [c EXCEPT !.ctx = c.ctx + 1]

\* keyCleaner.Stop: if c.cancel != nil { c.cancel() }
CleanerStop(c) ==
  IF c.ctx = 0 THEN c ELSE [c EXCEPT !.cancelled = c.cancelled \cup {c.ctx}]

\* <-c.ctx.Done() is ready
CleanerDone(c) == c.ctx \in c.cancelled

\* ------------------------------------------------------- Rotator.Rotate
\* r.hooksBeforeRotation.Run(r); var err error
RotateEnter(p, from) ==
  /\ pc' = [pc EXCEPT ![p] = "rot_lock"]
  /\ rot' = [rot EXCEPT ![p] = [NoRot EXCEPT !.from = from]]
  /\ hookRuns' = [hookRuns EXCEPT !.before = @ + 1]

\* r.controller.Lock(); r.setState(RotatorStateRotating)
RotateLock(p) ==
  /\ pc[p] = "rot_lock"
  /\ CanLock(controller)
  /\ controller' = [controller EXCEPT !.mutex = p]
  /\ state' = "Rotating"
  /\ rot' = [rot EXCEPT ![p].n = settings.RotationKeyCount]
  /\ pc' = [pc EXCEPT ![p] = "rot_gen"]
  /\ UNCHANGED <<now, settings, status, storage, idProvider, cleaner,
                 add, wk, until, res, count, hookRuns, addLog, activeBatch, limit,
                 generator, hooks, provUse>>

\* keyExpiration := time.Now().Add(RotationInterval).Add(KeyExpiration)
KeyExpirationAt(t, s) == t + s.RotationInterval + s.KeyExpiration

\* one pass of the key loop up to the call of r.cleaner.Add.  Either the
\* random id or the generator fails: return err with the outer err still
\* nil, and the deferred setState(Idle) and Unlock run.  Or the key is built
\* and its raw id is handed to the cleaner.
RotateGen(p) ==
  /\ pc[p] = "rot_gen"
  /\ \E ok \in BOOLEAN :
       IF ok /\ rot[p].i >= rot[p].n
       THEN /\ pc' = Panic
            /\ UNCHANGED <<count, rot, add, state, controller>>
       ELSE IF ok
       THEN LET n == count.keys + 1
                exp == KeyExpirationAt(now, settings)
            IN /\ count' = [count EXCEPT !.keys = n]
               /\ rot' = [rot EXCEPT
                            ![p].i = @ + 1,
                            ![p].keys = Append(@, [ID |-> KeyID(n),
                                                   Expires |-> exp])]
               /\ add' = [add EXCEPT ![p] = [NoAdd EXCEPT !.id = RawID(n),
                                                          !.exp = exp,
                                                          !.from = "rot"]]
               /\ pc' = [pc EXCEPT ![p] = "add_check"]
               /\ UNCHANGED <<state, controller>>
       ELSE /\ rot' = [rot EXCEPT ![p].ret = "err"]
            /\ state' = "Idle"
            /\ controller' = [controller EXCEPT !.mutex = NoProc]
            /\ pc' = [pc EXCEPT ![p] = "rot_after"]
            /\ UNCHANGED <<count, add>>
  /\ UNCHANGED <<now, settings, status, storage, idProvider, cleaner, wk,
                 until, res, hookRuns, addLog, activeBatch, limit,
                 generator, hooks, provUse>>

\* a Rotate whose failed storage.Add leaves the keys of the batch stored
RotatePersistLeaving(p) ==
  /\ pc[p] = "rot_persist"
  /\ \E ok \in BOOLEAN :
       IF ok
       THEN /\ storage' = StorageAdd(storage, rot[p].keys)
            /\ pc' = [pc EXCEPT ![p] = "rot_set"]
            /\ UNCHANGED <<rot, state, controller, count>>
       ELSE /\ count.fails < limit.fails
            /\ count' = [count EXCEPT !.fails = @ + 1]
            /\ rot' = [rot EXCEPT ![p].err = TRUE, ![p].ret = "err"]
            /\ state' = "Idle"
            /\ controller' = [controller EXCEPT !.mutex = NoProc]
            /\ pc' = [pc EXCEPT ![p] = "rot_after"]
            /\ storage' = StorageAdd(storage, rot[p].keys)
  /\ UNCHANGED <<now, settings, status, idProvider, cleaner, add, wk, until,
                 res, hookRuns, addLog, activeBatch, limit,
                 generator, hooks, provUse>>

\* err = r.storage.Add(context.Background(), keys...); if err != nil
\* { return err }: the outer err is set, and the deferred setState(Idle) and
\* Unlock run.  The in-memory storage never fails; a KeyStorage that does
\* rejects the call and stores nothing.
RotatePersist(p) ==
  /\ pc[p] = "rot_persist"
  /\ \E ok \in BOOLEAN :
       IF ok
       THEN /\ storage' = StorageAdd(storage, rot[p].keys)
            /\ pc' = [pc EXCEPT ![p] = "rot_set"]
            /\ UNCHANGED <<rot, state, controller, count>>
       ELSE /\ count.fails < limit.fails
            /\ count' = [count EXCEPT !.fails = @ + 1]
            /\ rot' = [rot EXCEPT ![p].err = TRUE, ![p].ret = "err"]
            /\ state' = "Idle"
            /\ controller' = [controller EXCEPT !.mutex = NoProc]
            /\ pc' = [pc EXCEPT ![p] = "rot_after"]
            /\ UNCHANGED storage
  /\ UNCHANGED <<now, settings, status, idProvider, cleaner, add, wk, until,
                 res, hookRuns, addLog, activeBatch, limit,
                 generator, hooks, provUse>>

\* the ids of the keys of a batch, in generation order
BatchIDs(keys) == [i \in 1..Len(keys) |-> keys[i].ID]

\* ids, the slice made with the RotationKeyCount read before the key loop:
\* the entries of the keys the loop did not get to stay empty
MadeIDs(r) ==
  BatchIDs(r.keys) \o [i \in 1..(r.n - Len(r.keys)) |-> NoID]

\* a Rotate whose deferred Unlock runs after the AfterRotation hooks
RotateSetHolding(p) ==
  /\ pc[p] = "rot_set"
  /\ idProvider' = ProviderSet(idProvider, MadeIDs(rot[p]))
  /\ state' = "Idle"
  /\ activeBatch' = SeqRange(BatchIDs(rot[p].keys))
  /\ pc' = [pc EXCEPT ![p] = "rot_after"]
  /\ UNCHANGED <<now, settings, status, storage, cleaner, rot, add, wk,
                 until, res, count, hookRuns, addLog, limit, controller,
                 generator, hooks, provUse>>

\* r.idProvider.Set(ids...); return nil, and the deferred setState(Idle)
\* and r.controller.Unlock() run
RotateSet(p) ==
  /\ pc[p] = "rot_set"
  /\ idProvider' = ProviderSet(idProvider, MadeIDs(rot[p]))
  /\ state' = "Idle"
  /\ controller' = [controller EXCEPT !.mutex = NoProc]
  /\ activeBatch' = SeqRange(BatchIDs(rot[p].keys))
  /\ pc' = [pc EXCEPT ![p] = "rot_after"]
  /\ UNCHANGED <<now, settings, status, storage, cleaner, rot, add, wk,
                 until, res, count, hookRuns, addLog, limit,
                 generator, hooks, provUse>>

\* a periodic loop that goes on after a Rotate that failed
RotateAfterRetrying(p) ==
  /\ pc[p] = "rot_after"
  /\ hookRuns' = IF rot[p].err THEN hookRuns
                 ELSE [hookRuns EXCEPT !.after = @ + 1]
  /\ pc' = [pc EXCEPT ![p] =
              IF rot[p].from = "start"
              THEN IF rot[p].ret = "nil" THEN "start_go" ELSE "idle"
              ELSE IF rot[p].from = "loop" THEN "loop_check"
              ELSE "idle"]
  /\ rot' = [rot EXCEPT ![p] = NoRot]
  /\ UNCHANGED <<now, settings, status, state, controller, storage,
                 idProvider, cleaner, add, wk, until, res, count, addLog,
                 activeBatch, limit,
                 generator, hooks, provUse>>

\* the deferred func: if err == nil { r.hooksAfterRotation.Run(r) }, then
\* Rotate returns to Start, to the periodic loop or to the caller
RotateAfter(p) ==
  /\ pc[p] = "rot_after"
  /\ hookRuns' = IF rot[p].err THEN hookRuns
                 ELSE [hookRuns EXCEPT !.after = @ + 1]
  /\ pc' = [pc EXCEPT ![p] =
              IF rot[p].from = "start"
              THEN IF rot[p].ret = "nil" THEN "start_go" ELSE "idle"
              ELSE IF rot[p].from = "loop"
              THEN IF rot[p].ret = "nil" THEN "loop_check" ELSE "done"
              ELSE "idle"]
  /\ rot' = [rot EXCEPT ![p] = NoRot]
  /\ UNCHANGED <<now, settings, status, state, controller, storage,
                 idProvider, cleaner, add, wk, until, res, count, addLog,
                 activeBatch, limit,
                 generator, hooks, provUse>>

\* the next call is made by the first thread that is free
CanCall(p) ==
  /\ pc[p] = "idle"
  /\ p[2] <= limit.callers
  /\ \A q \in Callers : q[2] < p[2] => pc[q] # "idle"

\* a caller invokes Rotate()
CallRotate(p) ==
  /\ CanCall(p)
  /\ count.rotations < limit.rotations
  /\ count' = [count EXCEPT !.rotations = @ + 1]
  /\ RotateEnter(p, "call")
  /\ UNCHANGED <<now, settings, status, state, controller, storage,
                 idProvider, cleaner, add, wk, until, res, addLog,
                 activeBatch, limit,
                 generator, hooks, provUse>>

\* -------------------------------------------------------- Rotator.Start
\* a Start that replaces the controller's context before it looks at the
\* status
CallStartTurningOn(p) ==
  /\ CanCall(p)
  /\ IF status = "Started"
     THEN /\ controller' = TurnOn(controller)
          /\ res' = [res EXCEPT ![p] = [NoRes EXCEPT
                       !.op = "Start", !.err = "ErrRotatorAlreadyRunning"]]
          /\ pc' = [pc EXCEPT ![p] = "return"]
          /\ UNCHANGED count
     ELSE /\ count.starts < limit.starts
          /\ count.rotations < limit.rotations
          /\ count' = [count EXCEPT !.starts = @ + 1, !.rotations = @ + 1]
          /\ pc' = [pc EXCEPT ![p] = "start_cleaner"]
          /\ UNCHANGED <<res, controller>>
  /\ UNCHANGED <<now, settings, status, state, storage, idProvider, cleaner,
                 rot, add, wk, until, hookRuns, addLog, activeBatch, limit,
                 generator, hooks, provUse>>

\* if r.status == RotatorStatusStarted { return ErrRotatorAlreadyRunning }
CallStart(p) ==
  /\ CanCall(p)
  /\ IF status = "Started"
     THEN /\ res' = [res EXCEPT ![p] = [NoRes EXCEPT
                       !.op = "Start", !.err = "ErrRotatorAlreadyRunning"]]
          /\ pc' = [pc EXCEPT ![p] = "return"]
          /\ UNCHANGED count
     ELSE /\ count.starts < limit.starts
          /\ count.rotations < limit.rotations
          /\ count' = [count EXCEPT !.starts = @ + 1, !.rotations = @ + 1]
          /\ pc' = [pc EXCEPT ![p] = "start_cleaner"]
          /\ UNCHANGED res
  /\ UNCHANGED <<now, settings, status, state, controller, storage,
                 idProvider, cleaner, rot, add, wk, until, hookRuns, addLog,
                 activeBatch, limit,
                 generator, hooks, provUse>>

\* a call that changed nothing returns its result
Return(p) ==
  /\ pc[p] = "return"
  /\ pc' = [pc EXCEPT ![p] = "idle"]
  /\ res' = [res EXCEPT ![p] = NoRes]
  /\ UNCHANGED <<now, settings, status, state, controller, storage,
                 idProvider, cleaner, rot, add, wk, until, count, hookRuns,
                 addLog, activeBatch, limit,
                 generator, hooks, provUse>>

\* if r.settings.AutoClearExpiredKeys { r.cleaner.Start(ctx) }
StartCleaner(p) ==
  /\ pc[p] = "start_cleaner"
  /\ IF settings.AutoClearExpiredKeys
     THEN /\ cleaner' = CleanerStart(cleaner)
          /\ pc' = [pc EXCEPT ![p] = "start_turnon",
                              ![FreeProc(Workers)] = "w_lock"]
     ELSE /\ pc' = [pc EXCEPT ![p] = "start_turnon"]
          /\ UNCHANGED cleaner
  /\ UNCHANGED <<now, settings, status, state, controller, storage,
                 idProvider, rot, add, wk, until, res, count, hookRuns,
                 addLog, activeBatch, limit,
                 generator, hooks, provUse>>

\* r.controller.TurnOn(), then r.Rotate() is entered
StartTurnOn(p) ==
  /\ pc[p] = "start_turnon"
  /\ controller' = TurnOn(controller)
  /\ RotateEnter(p, "start")
  /\ UNCHANGED <<now, settings, status, state, storage, idProvider, cleaner,
                 add, wk, until, res, count, addLog, activeBatch, limit,
                 generator, hooks, provUse>>

\* go r.run()
StartGo(p) ==
  /\ pc[p] = "start_go"
  /\ pc' = [pc EXCEPT ![p] = "start_status", ![FreeProc(Loops)] = "loop_check"]
  /\ UNCHANGED <<now, settings, status, state, controller, storage,
                 idProvider, cleaner, rot, add, wk, until, res, count,
                 hookRuns, addLog, activeBatch, limit,
                 generator, hooks, provUse>>

\* r.setStatus(RotatorStatusStarted); r.onStartHooks.Run(r); return nil
StartStatus(p) ==
  /\ pc[p] = "start_status"
  /\ status' = "Started"
  /\ hookRuns' = [hookRuns EXCEPT !.onStart = @ + 1]
  /\ pc' = [pc EXCEPT ![p] = "idle"]
  /\ UNCHANGED <<now, settings, state, controller, storage, idProvider,
                 cleaner, rot, add, wk, until, res, count, addLog,
                 activeBatch, limit,
                 generator, hooks, provUse>>

\* --------------------------------------------------------- Rotator.Stop
\* a Stop that does not look at the status
CallStopAlways(p) ==
  /\ CanCall(p)
  /\ pc' = [pc EXCEPT ![p] = "stop_off"]
  /\ UNCHANGED <<now, settings, status, state, controller, storage,
                 idProvider, cleaner, rot, add, wk, until, res, count,
                 hookRuns, addLog, activeBatch, limit,
                 generator, hooks, provUse>>

\* if r.status == RotatorStatusStopped { return }
CallStop(p) ==
  /\ CanCall(p)
  /\ IF status = "Stopped"
     THEN /\ res' = [res EXCEPT ![p] = [NoRes EXCEPT !.op = "Stop"]]
          /\ pc' = [pc EXCEPT ![p] = "return"]
     ELSE /\ pc' = [pc EXCEPT ![p] = "stop_off"]
          /\ UNCHANGED res
  /\ UNCHANGED <<now, settings, status, state, controller, storage,
                 idProvider, cleaner, rot, add, wk, until, count, hookRuns,
                 addLog, activeBatch, limit,
                 generator, hooks, provUse>>

\* r.controller.TurnOff()
StopOff(p) ==
  /\ pc[p] = "stop_off"
  /\ controller' = TurnOff(controller)
  /\ pc' = [pc EXCEPT ![p] = "stop_cleaner"]
  /\ UNCHANGED <<now, settings, status, state, storage, idProvider, cleaner,
                 rot, add, wk, until, res, count, hookRuns, addLog,
                 activeBatch, limit,
                 generator, hooks, provUse>>

\* r.cleaner.Stop()
StopCleaner(p) ==
  /\ pc[p] = "stop_cleaner"
  /\ cleaner' = CleanerStop(cleaner)
  /\ pc' = [pc EXCEPT ![p] = "stop_status"]
  /\ UNCHANGED <<now, settings, status, state, controller, storage,
                 idProvider, rot, add, wk, until, res, count, hookRuns,
                 addLog, activeBatch, limit,
                 generator, hooks, provUse>>

\* r.setStatus(RotatorStatusStopped); r.onStopHooks.Run(r)
StopStatus(p) ==
  /\ pc[p] = "stop_status"
  /\ status' = "Stopped"
  /\ hookRuns' = [hookRuns EXCEPT !.onStop = @ + 1]
  /\ pc' = [pc EXCEPT ![p] = "idle"]
  /\ UNCHANGED <<now, settings, state, controller, storage, idProvider,
                 cleaner, rot, add, wk, until, res, count, addLog,
                 activeBatch, limit,
                 generator, hooks, provUse>>

\* ---------------------------------------------------------- Rotator.run
\* if r.controller.Disposed() { return nil }; time.Sleep(RotationInterval)
LoopCheck(l) ==
  /\ pc[l] = "loop_check"
  /\ IF Disposed(controller)
     THEN /\ pc' = [pc EXCEPT ![l] = "done"]
          /\ UNCHANGED until
     ELSE /\ pc' = [pc EXCEPT ![l] = "loop_sleep"]
          /\ until' = [until EXCEPT ![l] = now + settings.RotationInterval]
  /\ UNCHANGED <<now, settings, status, state, controller, storage,
                 idProvider, cleaner, rot, add, wk, res, count, hookRuns,
                 addLog, activeBatch, limit,
                 generator, hooks, provUse>>

\* the sleep is over: r.Rotate() is entered
LoopRotate(l) ==
  /\ pc[l] = "loop_sleep"
  /\ now >= until[l]
  /\ count.rotations < limit.rotations
  /\ count' = [count EXCEPT !.rotations = @ + 1]
  /\ until' = [until EXCEPT ![l] = 0]
  /\ RotateEnter(l, "loop")
  /\ UNCHANGED <<now, settings, status, state, controller, storage,
                 idProvider, cleaner, add, wk, res, addLog, activeBatch, limit,
                 generator, hooks, provUse>>

\* ------------------------------------- GetKeyID / GetKey / GetKeyByID
\* inMemoryStorage.Get as seen by the caller: [id, err, exp]
StorageRead(id) ==
  LET g == StorageGet(storage, id)
  IN [NoRes EXCEPT !.id = id, !.err = g.err, !.exp = g.key.Expires]

\* GetKeyID: r.controller.Lock(); return r.idProvider.Get()
CallGetKeyID(p) ==
  /\ CanCall(p)
  /\ CanLock(controller)
  /\ controller' = [controller EXCEPT !.mutex = p]
  /\ \E o \in ProviderGet(idProvider) :
       /\ idProvider' = o.p
       /\ res' = [res EXCEPT ![p] = [NoRes EXCEPT !.op = "GetKeyID",
                                                  !.id = o.id, !.err = o.err]]
  /\ pc' = [pc EXCEPT ![p] = "get_unlock"]
  /\ UNCHANGED <<now, settings, status, state, storage, cleaner, rot, add,
                 wk, until, count, hookRuns, addLog, activeBatch, limit,
                 generator, hooks, provUse>>

\* GetKey: r.controller.Lock(); id, err := r.idProvider.Get(); if err != nil
\* { return nil, err }; key, err := r.storage.Get(ctx, id)
CallGetKey(p) ==
  /\ CanCall(p)
  /\ CanLock(controller)
  /\ controller' = [controller EXCEPT !.mutex = p]
  /\ \E o \in ProviderGet(idProvider) :
       /\ idProvider' = o.p
       /\ res' = [res EXCEPT ![p] =
                    IF o.err # "nil"
                    THEN [NoRes EXCEPT !.op = "GetKey", !.err = o.err]
                    ELSE [StorageRead(o.id) EXCEPT !.op = "GetKey"]]
  /\ pc' = [pc EXCEPT ![p] = "get_unlock"]
  /\ UNCHANGED <<now, settings, status, state, storage, cleaner, rot, add,
                 wk, until, count, hookRuns, addLog, activeBatch, limit,
                 generator, hooks, provUse>>

\* GetKeyByID(id): r.controller.Lock(); key, err := r.storage.Get(ctx, id)
CallGetKeyByID(p, id) ==
  /\ CanCall(p)
  /\ CanLock(controller)
  /\ controller' = [controller EXCEPT !.mutex = p]
  /\ res' = [res EXCEPT ![p] = [StorageRead(id) EXCEPT !.op = "GetKeyByID"]]
  /\ pc' = [pc EXCEPT ![p] = "get_unlock"]
  /\ UNCHANGED <<now, settings, status, state, storage, idProvider, cleaner,
                 rot, add, wk, until, count, hookRuns, addLog, activeBatch,
                 limit,
                 generator, hooks, provUse>>

\* the deferred r.controller.Unlock(), and the call returns
GetUnlock(p) ==
  /\ pc[p] = "get_unlock"
  /\ controller' = [controller EXCEPT !.mutex = NoProc]
  /\ pc' = [pc EXCEPT ![p] = "idle"]
  /\ res' = [res EXCEPT ![p] = NoRes]
  /\ UNCHANGED <<now, settings, status, state, storage, idProvider, cleaner,
                 rot, add, wk, until, count, hookRuns, addLog, activeBatch,
                 limit,
                 generator, hooks, provUse>>

\* -------------------------------------------------------- keyCleaner.run

\* the goroutine leaves run(): the deferred c.locker.Unlock()
WorkerReturn(w) ==
  /\ cleaner' = [cleaner EXCEPT !.locker = NoProc]
  /\ pc' = [pc EXCEPT ![w] = "done"]
  /\ wk' = [wk EXCEPT ![w] = NoWk]

\* c.locker.Lock()
WorkerLock(w) ==
  /\ pc[w] = "w_lock"
  /\ cleaner.locker = NoProc
  /\ cleaner' = [cleaner EXCEPT !.locker = w]
  /\ pc' = [pc EXCEPT ![w] = "w_select"]
  /\ UNCHANGED <<now, settings, status, state, controller, storage,
                 idProvider, rot, add, wk, until, res, count, hookRuns,
                 addLog, activeBatch, limit,
                 generator, hooks, provUse>>

\* select { case <-c.ctx.Done(): return; default: if len(c.ids) == 0 ... }
WorkerSelect(w) ==
  /\ pc[w] = "w_select"
  /\ IF CleanerDone(cleaner)
     THEN WorkerReturn(w)
     ELSE /\ pc' = [pc EXCEPT ![w] = IF Len(cleaner.ids) = 0
                                     THEN "w_park" ELSE "w_peek"]
          /\ UNCHANGED <<cleaner, wk>>
  /\ UNCHANGED <<now, settings, status, state, controller, storage,
                 idProvider, rot, add, until, res, count, hookRuns, addLog, activeBatch, limit,
                 generator, hooks, provUse>>

\* c.newKeyAdded.Wait(): join the notify list and release the locker
WorkerPark(w) ==
  /\ pc[w] = "w_park"
  /\ cleaner' = [cleaner EXCEPT !.waiters = Append(@, w), !.locker = NoProc]
  /\ pc' = [pc EXCEPT ![w] = "w_wait"]
  /\ UNCHANGED <<now, settings, status, state, controller, storage,
                 idProvider, rot, add, wk, until, res, count, hookRuns,
                 addLog, activeBatch, limit,
                 generator, hooks, provUse>>

\* Wait() returns after a Signal: the locker is taken again; continue
WorkerWake(w) ==
  /\ pc[w] = "w_wake"
  /\ cleaner.locker = NoProc
  /\ cleaner' = [cleaner EXCEPT !.locker = w]
  /\ pc' = [pc EXCEPT ![w] = "w_select"]
  /\ UNCHANGED <<now, settings, status, state, controller, storage,
                 idProvider, rot, add, wk, until, res, count, hookRuns,
                 addLog, activeBatch, limit,
                 generator, hooks, provUse>>

\* expiration := c.expirations[0]; if expiration.Before(time.Now()) ...
\* else the timer is armed for time.Until(expiration)
WorkerPeek(w) ==
  /\ pc[w] = "w_peek"
  /\ IF Len(cleaner.expirations) = 0
     THEN /\ pc' = Panic
          /\ UNCHANGED wk
     ELSE /\ wk' = [wk EXCEPT ![w].exp = cleaner.expirations[1]]
          /\ pc' = [pc EXCEPT ![w] = IF cleaner.expirations[1] < now
                                     THEN "w_del_id" ELSE "w_timer"]
  /\ UNCHANGED <<now, settings, status, state, controller, storage,
                 idProvider, cleaner, rot, add, until, res, count, hookRuns,
                 addLog, activeBatch, limit,
                 generator, hooks, provUse>>

\* <-timer.C, then select { case <-c.ctx.Done(): return; default: ... }
WorkerTimer(w) ==
  /\ pc[w] = "w_timer"
  /\ now >= wk[w].exp
  /\ IF CleanerDone(cleaner)
     THEN WorkerReturn(w)
     ELSE /\ pc' = [pc EXCEPT ![w] = "w_del_id"]
          /\ UNCHANGED <<cleaner, wk>>
  /\ UNCHANGED <<now, settings, status, state, controller, storage,
                 idProvider, rot, add, until, res, count, hookRuns, addLog, activeBatch, limit,
                 generator, hooks, provUse>>

\* deleteLatestExpiredKey: id := c.ids[0]
WorkerDelId(w) ==
  /\ pc[w] = "w_del_id"
  /\ IF Len(cleaner.ids) = 0
     THEN /\ pc' = Panic
          /\ UNCHANGED wk
     ELSE /\ wk' = [wk EXCEPT ![w].id = cleaner.ids[1], ![w].exp = 0]
          /\ pc' = [pc EXCEPT ![w] = "w_ids_load"]
  /\ UNCHANGED <<now, settings, status, state, controller, storage,
                 idProvider, cleaner, rot, add, until, res, count, hookRuns,
                 addLog, activeBatch, limit,
                 generator, hooks, provUse>>

\* c.ids = c.ids[1:]: the load of c.ids
WorkerIdsLoad(w) ==
  /\ pc[w] = "w_ids_load"
  /\ IF Len(cleaner.ids) = 0
     THEN /\ pc' = Panic
          /\ UNCHANGED wk
     ELSE /\ wk' = [wk EXCEPT ![w].tmpIds = Tail(cleaner.ids)]
          /\ pc' = [pc EXCEPT ![w] = "w_ids_store"]
  /\ UNCHANGED <<now, settings, status, state, controller, storage,
                 idProvider, cleaner, rot, add, until, res, count, hookRuns,
                 addLog, activeBatch, limit,
                 generator, hooks, provUse>>

\* c.ids = c.ids[1:]: the store to c.ids
WorkerIdsStore(w) ==
  /\ pc[w] = "w_ids_store"
  /\ cleaner' = [cleaner EXCEPT !.ids = wk[w].tmpIds]
  /\ wk' = [wk EXCEPT ![w].tmpIds = <<>>]
  /\ pc' = [pc EXCEPT ![w] = "w_exp_load"]
  /\ UNCHANGED <<now, settings, status, state, controller, storage,
                 idProvider, rot, add, until, res, count, hookRuns, addLog, activeBatch, limit,
                 generator, hooks, provUse>>

\* c.expirations = c.expirations[1:]: the load
WorkerExpLoad(w) ==
  /\ pc[w] = "w_exp_load"
  /\ IF Len(cleaner.expirations) = 0
     THEN /\ pc' = Panic
          /\ UNCHANGED wk
     ELSE /\ wk' = [wk EXCEPT ![w].tmpExp = Tail(cleaner.expirations)]
          /\ pc' = [pc EXCEPT ![w] = "w_exp_store"]
  /\ UNCHANGED <<now, settings, status, state, controller, storage,
                 idProvider, cleaner, rot, add, until, res, count, hookRuns,
                 addLog, activeBatch, limit,
                 generator, hooks, provUse>>

\* c.expirations = c.expirations[1:]: the store
WorkerExpStore(w) ==
  /\ pc[w] = "w_exp_store"
  /\ cleaner' = [cleaner EXCEPT !.expirations = wk[w].tmpExp]
  /\ wk' = [wk EXCEPT ![w].tmpExp = <<>>]
  /\ pc' = [pc EXCEPT ![w] = "w_delete"]
  /\ UNCHANGED <<now, settings, status, state, controller, storage,
                 idProvider, rot, add, until, res, count, hookRuns, addLog, activeBatch, limit,
                 generator, hooks, provUse>>

\* err := c.storage.Delete(c.ctx, id); continue
WorkerDelete(w) ==
  /\ pc[w] = "w_delete"
  /\ storage' = StorageDelete(storage, wk[w].id)
  /\ wk' = [wk EXCEPT ![w] = NoWk]
  /\ pc' = [pc EXCEPT ![w] = "w_select"]
  /\ UNCHANGED <<now, settings, status, state, controller, idProvider,
                 cleaner, rot, add, until, res, count, hookRuns, addLog,
                 activeBatch, limit,
                 generator, hooks, provUse>>

\* ------------------------------------------------ the unguarded key map
\* the goroutine is about to access inMemoryStorage.keys: storage.Add in
\* Rotate, storage.Delete in the worker, storage.Delete in Add
AtStorage(p) ==
  \/ pc[p] \in {"rot_persist", "w_delete"}
  \/ pc[p] = "add_check" /\ add[p].exp < now

\* two goroutines are in the key map at once, which no lock they share
\* prevents: the runtime may detect it and end the program (fatal error:
\* concurrent map writes); if it does not, the accesses run in some order
StorageRace ==
  /\ \E p, q \in Procs : p # q /\ AtStorage(p) /\ AtStorage(q)
  /\ pc' = Panic
  /\ UNCHANGED <<now, settings, status, state, controller, storage,
                 idProvider, cleaner, rot, add, wk, until, res, count,
                 hookRuns, addLog, activeBatch, limit,
                 generator, hooks, provUse>>

\* ------------------------------------------- the keyCleaner on its own
\* a client calls Start(ctx)
DrvStart(p) ==
  /\ CanCall(p)
  /\ count.starts < limit.starts
  /\ count' = [count EXCEPT !.starts = @ + 1]
  /\ cleaner' = CleanerStart(cleaner)
  /\ pc' = [pc EXCEPT ![FreeProc(Workers)] = "w_lock"]
  /\ UNCHANGED <<now, settings, status, state, controller, storage,
                 idProvider, rot, add, wk, until, res, hookRuns, addLog,
                 activeBatch, limit,
                 generator, hooks, provUse>>

\* a client calls Stop()
DrvStop(p) ==
  /\ CanCall(p)
  /\ cleaner.ctx \notin cleaner.cancelled \cup {0}
  /\ cleaner' = CleanerStop(cleaner)
  /\ UNCHANGED <<now, settings, status, state, controller, storage,
                 idProvider, pc, rot, add, wk, until, res, count, hookRuns,
                 addLog, activeBatch, limit,
                 generator, hooks, provUse>>

\* a client calls Add(id, T) for a key not registered before
DrvAdd(p, T) ==
  /\ CanCall(p)
  /\ count.keys < limit.adds
  /\ count' = [count EXCEPT !.keys = @ + 1]
  /\ add' = [add EXCEPT ![p] = [NoAdd EXCEPT !.id = RawID(count.keys + 1),
                                            !.exp = T, !.from = "drv"]]
  /\ pc' = [pc EXCEPT ![p] = "add_check"]
  /\ UNCHANGED <<now, settings, status, state, controller, storage,
                 idProvider, cleaner, rot, wk, until, res, hookRuns, addLog,
                 activeBatch, limit,
                 generator, hooks, provUse>>

\* ------------------------------ SetSettings / SetStorage / SetGenerator
\* a nil *RotatorSettings
NilSettings == [nil |-> TRUE]

\* the arguments SetSettings is called with: nil, settings with one field
\* or more out of range, and valid settings without AutoClearExpiredKeys
SettingsOffered ==
  {NilSettings} \cup
  {s \in SettingsTried :
     /\ ~s.AutoClearExpiredKeys
     /\ s.RotationInterval <= 0
     /\ s.KeyExpiration <= 0
     /\ s.KeyProvidingMode \in {AutoKeyProvidingMode - 1,
                                AutoKeyProvidingMode}}

\* the arguments SetStorage and SetGenerator are called with
StoragesOffered == {"nil", "new"}
GeneratorsOffered == {"nil", "custom"}

\* the error SetSettings returns for an argument: its kind and the kind it
\* wraps
SetSettingsErr(arg) ==
  IF arg = NilSettings THEN [kind |-> "ErrInvalidArgument", sub |-> "nil"]
  ELSE IF Validate(arg) # "nil"
       THEN [kind |-> "ErrInvalidSettings", sub |-> Validate(arg)]
  ELSE [kind |-> "nil", sub |-> "nil"]

\* NewKeyCleaner(storage)
NewKeyCleaner ==
  [ids |-> <<>>, expirations |-> <<>>, ctx |-> 0, cancelled |-> {},
   locker |-> NoProc, waiters |-> <<>>]

\* a SetSettings that stores the settings before it validates them
CallSetSettingsEarly(p, arg) ==
  /\ CanCall(p)
  /\ count.sets < MaxSetterCalls
  /\ count' = [count EXCEPT !.sets = @ + 1]
  /\ IF status = "Started"
     THEN pc' = Panic /\ UNCHANGED <<settings, res>>
     ELSE /\ settings' = IF arg = NilSettings THEN settings ELSE arg
          /\ res' = [res EXCEPT ![p] =
                       [NoRes EXCEPT !.op = "SetSettings",
                                     !.err = SetSettingsErr(arg).kind]]
          /\ pc' = [pc EXCEPT ![p] = "return"]
  /\ UNCHANGED <<now, status, state, controller, storage, idProvider,
                 cleaner, rot, add, wk, until, hookRuns, addLog, activeBatch,
                 limit, generator, hooks, provUse>>

\* SetSettings(settings): panic if Started; nil and invalid settings return
\* an error; otherwise r.settings = settings
CallSetSettings(p, arg) ==
  /\ CanCall(p)
  /\ count.sets < MaxSetterCalls
  /\ count' = [count EXCEPT !.sets = @ + 1]
  /\ IF status = "Started"
     THEN pc' = Panic /\ UNCHANGED <<settings, res>>
     ELSE /\ settings' = IF SetSettingsErr(arg).kind = "nil" THEN arg
                         ELSE settings
          /\ res' = [res EXCEPT ![p] =
                       [NoRes EXCEPT !.op = "SetSettings",
                                     !.err = SetSettingsErr(arg).kind]]
          /\ pc' = [pc EXCEPT ![p] = "return"]
  /\ UNCHANGED <<now, status, state, controller, storage, idProvider,
                 cleaner, rot, add, wk, until, hookRuns, addLog, activeBatch,
                 limit, generator, hooks, provUse>>

\* SetStorage(storage): panic if Started; nil returns ErrInvalidArgument;
\* otherwise r.cleaner.Stop(), r.cleaner = NewKeyCleaner(storage),
\* r.storage = storage, a storage that holds no key
CallSetStorage(p, arg) ==
  /\ CanCall(p)
  /\ count.sets < MaxSetterCalls
  /\ count' = [count EXCEPT !.sets = @ + 1]
  /\ IF status = "Started"
     THEN pc' = Panic /\ UNCHANGED <<storage, cleaner, res>>
     ELSE /\ IF arg = "nil"
             THEN UNCHANGED <<storage, cleaner>>
             ELSE storage' = {} /\ cleaner' = NewKeyCleaner
          /\ res' = [res EXCEPT ![p] =
                       [NoRes EXCEPT !.op = "SetStorage",
                                     !.err = IF arg = "nil"
                                             THEN "ErrInvalidArgument"
                                             ELSE "nil"]]
          /\ pc' = [pc EXCEPT ![p] = "return"]
  /\ UNCHANGED <<now, settings, status, state, controller, idProvider, rot,
                 add, wk, until, hookRuns, addLog, activeBatch, limit,
                 generator, hooks, provUse>>

\* SetGenerator(generator): panic if Started; nil returns
\* ErrInvalidArgument; otherwise r.generator = generator
CallSetGenerator(p, arg) ==
  /\ CanCall(p)
  /\ count.sets < MaxSetterCalls
  /\ count' = [count EXCEPT !.sets = @ + 1]
  /\ IF status = "Started"
     THEN pc' = Panic /\ UNCHANGED <<generator, res>>
     ELSE /\ generator' = IF arg = "nil" THEN generator ELSE arg
          /\ res' = [res EXCEPT ![p] =
                       [NoRes EXCEPT !.op = "SetGenerator",
                                     !.err = IF arg = "nil"
                                             THEN "ErrInvalidArgument"
                                             ELSE "nil"]]
          /\ pc' = [pc EXCEPT ![p] = "return"]
  /\ UNCHANGED <<now, settings, status, state, controller, storage,
                 idProvider, cleaner, rot, add, wk, until, hookRuns, addLog,
                 activeBatch, limit, hooks, provUse>>

\* ------------------------ OnStart / OnStop / BeforeRotation / AfterRotation
\* the hooks of one registration call, in the order of the arguments: a hook
\* is named by its rank among all the hooks registered
NewHooks(k) == [i \in 1..k |-> count.regs + i]

\* what every registration call does besides its slice
Register(p, k) ==
  /\ CanCall(p)
  /\ count.regs + k <= MaxHooks
  /\ count' = [count EXCEPT !.regs = @ + k]
  /\ UNCHANGED <<now, settings, status, state, controller, storage,
                 idProvider, cleaner, pc, rot, add, wk, until, res, hookRuns,
                 addLog, activeBatch, limit, generator, provUse>>

\* OnStart(hooks...): r.onStartHooks = append(r.onStartHooks, hooks...)
CallOnStart(p, k) ==
  /\ Register(p, k)
  /\ hooks' = [hooks EXCEPT !.onStart = @ \o NewHooks(k)]

\* OnStop(hooks...): r.onStopHooks = append(r.onStopHooks, hooks...)
CallOnStop(p, k) ==
  /\ Register(p, k)
  /\ hooks' = [hooks EXCEPT !.onStop = @ \o NewHooks(k)]

\* BeforeRotation(hooks...):
\* r.hooksBeforeRotation = append(hooks, r.hooksBeforeRotation...)
CallBeforeRotation(p, k) ==
  /\ Register(p, k)
  /\ hooks' = [hooks EXCEPT !.before = NewHooks(k) \o @]

\* AfterRotation(hooks...):
\* r.hooksAfterRotation = append(r.hooksAfterRotation, hooks...)
CallAfterRotation(p, k) ==
  /\ Register(p, k)
  /\ hooks' = [hooks EXCEPT !.after = @ \o NewHooks(k)]

\* RotatorHooks.Run: the hooks in the order they are called
Run(h) == h

\* ---------------------------------------- the in-memory storage on its own
\* storage.Add(ctx, &Key{ID: id, Expires: exp})
StoreAdd(n, exp) ==
  /\ pc[User] = "idle"
  /\ storage' = StorageAdd(storage, <<[ID |-> KeyID(n), Expires |-> exp]>>)
  /\ res' = [res EXCEPT ![User] = [NoRes EXCEPT !.op = "Add"]]
  /\ UNCHANGED <<now, settings, status, state, controller, idProvider,
                 cleaner, pc, rot, add, wk, until, count, hookRuns, addLog,
                 activeBatch, limit, generator, hooks, provUse>>

\* storage.Delete(ctx, id)
StoreDelete(n) ==
  /\ pc[User] = "idle"
  /\ storage' = StorageDelete(storage, KeyID(n))
  /\ res' = [res EXCEPT ![User] = [NoRes EXCEPT !.op = "Delete"]]
  /\ UNCHANGED <<now, settings, status, state, controller, idProvider,
                 cleaner, pc, rot, add, wk, until, count, hookRuns, addLog,
                 activeBatch, limit, generator, hooks, provUse>>

\* storage.Get(ctx, id)
StoreGet(n) ==
  /\ pc[User] = "idle"
  /\ res' = [res EXCEPT ![User] = [StorageRead(KeyID(n)) EXCEPT !.op = "Get"]]
  /\ UNCHANGED <<now, settings, status, state, controller, storage,
                 idProvider, cleaner, pc, rot, add, wk, until, count,
                 hookRuns, addLog, activeBatch, limit, generator, hooks,
                 provUse>>

\* storage.ClearDeprecated(ctx)
StoreClearDeprecated ==
  /\ pc[User] = "idle"
  /\ storage' = ClearDeprecated(storage, now)
  /\ res' = [res EXCEPT ![User] = [NoRes EXCEPT !.op = "ClearDeprecated"]]
  /\ UNCHANGED <<now, settings, status, state, controller, idProvider,
                 cleaner, pc, rot, add, wk, until, count, hookRuns, addLog,
                 activeBatch, limit, generator, hooks, provUse>>

\* ---------------------------------------- the KeyIDProvider on its own

\* a set of n ids, in order
IdsOf(n) == [i \in 1..n |-> KeyID(i)]

\* the KeyProvidingMode values tried: the defined ones and one beyond each
\* end of the enum
ModesTried ==
  (AutoKeyProvidingMode - 1)..(NonRepeatingCyclicKeyProvidingMode + 1)

\* NewKeyIDProvider(mode, ids...): provider := &KeyIDProvider{mode: mode};
\* provider.Set(ids...)
NewKeyIDProvider(mode, ids) ==
  ProviderSet([ZeroProvider EXCEPT !.mode = mode], ids)

\* a client creates the provider
ProvNew(mode, n) ==
  /\ pc[User] = "idle"
  /\ provUse.sets = 0
  /\ idProvider' = NewKeyIDProvider(mode, IdsOf(n))
  /\ provUse' = [mode |-> mode, sets |-> 1, log |-> <<>>]
  /\ UNCHANGED <<now, settings, status, state, controller, storage, cleaner,
                 pc, rot, add, wk, until, res, count, hookRuns, addLog,
                 activeBatch, limit, generator, hooks>>

\* a client calls Set(ids...)
ProvSet(n) ==
  /\ pc[User] = "idle"
  /\ provUse.sets \in 1..(MaxSets - 1)
  /\ idProvider' = ProviderSet(idProvider, IdsOf(n))
  /\ provUse' = [provUse EXCEPT !.sets = @ + 1, !.log = <<>>]
  /\ UNCHANGED <<now, settings, status, state, controller, storage, cleaner,
                 pc, rot, add, wk, until, res, count, hookRuns, addLog,
                 activeBatch, limit, generator, hooks>>

\* a client calls Get(); an index out of range is a run-time panic
ProvGet ==
  /\ pc[User] = "idle"
  /\ provUse.sets >= 1
  /\ Len(provUse.log) < MaxGets
  /\ \E o \in ProviderGet(idProvider) :
       /\ idProvider' = o.p
       /\ provUse' = [provUse EXCEPT
                        !.log = Append(@, [id |-> o.id, err |-> o.err])]
       /\ pc' = IF o.err = "panic" THEN Panic ELSE pc
  /\ UNCHANGED <<now, settings, status, state, controller, storage, cleaner,
                 rot, add, wk, until, res, count, hookRuns, addLog,
                 activeBatch, limit, generator, hooks>>

\* ------------------------------------------------------------ the system
\* the steps of keyCleaner.Add
AddStep(p) ==
  \/ AddCheck(p)
  \/ AddIdsLoad(p)
  \/ AddIdsStore(p)
  \/ AddExpLoad(p)
  \/ AddExpStore(p)
  \/ AddSignal(p)

\* the steps of keyCleaner.run
WorkerStep(w) ==
  \/ WorkerLock(w)
  \/ WorkerSelect(w)
  \/ WorkerPark(w)
  \/ WorkerWake(w)
  \/ WorkerPeek(w)
  \/ WorkerTimer(w)
  \/ WorkerDelId(w)
  \/ WorkerIdsLoad(w)
  \/ WorkerIdsStore(w)
  \/ WorkerExpLoad(w)
  \/ WorkerExpStore(w)
  \/ WorkerDelete(w)

\* the steps of Rotator.Rotate, in a caller or in the periodic loop
RotateStep(p) ==
  \/ RotateLock(p)
  \/ RotateGen(p)
  \/ RotatePersist(p)
  \/ RotateSet(p)
  \/ RotateAfter(p)
  \/ AddStep(p)

\* the steps of the periodic loop
LoopStep(l) ==
  \/ LoopCheck(l)
  \/ LoopRotate(l)
  \/ RotateStep(l)

\* the steps of a caller of the Rotator
CallerStep(p) ==
  \/ CallStart(p)
  \/ Return(p)
  \/ StartCleaner(p)
  \/ StartTurnOn(p)
  \/ StartGo(p)
  \/ StartStatus(p)
  \/ CallStop(p)
  \/ StopOff(p)
  \/ StopCleaner(p)
  \/ StopStatus(p)
  \/ CallRotate(p)
  \/ CallGetKeyID(p)
  \/ CallGetKey(p)
  \/ \E n \in 1..count.keys : CallGetKeyByID(p, KeyID(n))
  \/ GetUnlock(p)
  \/ RotateStep(p)

RotatorNext ==
  \/ Tick
  \/ \E p \in Callers : CallerStep(p)
  \/ \E l \in Loops : LoopStep(l)

Next ==
  \/ RotatorNext
  \/ \E w \in Workers : WorkerStep(w)
  \/ StorageRace

SchedNext ==
  \/ Tick
  \/ \E p \in Callers : DrvStart(p)
  \/ \E p \in Callers : DrvStop(p)
  \/ \E p \in Callers : \E T \in 0..limit.time : DrvAdd(p, T)
  \/ \E p \in Callers : AddStep(p)
  \/ \E w \in Workers : WorkerStep(w)
  \/ StorageRace

\* the Rotator with AutoClearExpiredKeys
Spec == Init /\ [][Next]_vars

\* the Rotator without AutoClearExpiredKeys
RotatorSpec == RotatorInit /\ [][RotatorNext]_vars

\* the keyCleaner driven directly
SchedSpec == SchedInit /\ [][SchedNext]_vars

\* the Rotator started more than once
RestartSpec == RestartInit /\ [][RotatorNext]_vars

\* the Rotator called by one thread
SeqSpec == SeqInit /\ [][RotatorNext]_vars

\* the Rotator over a storage that can fail
FaultSpec == FaultInit /\ [][RotatorNext]_vars

ModeSpec == ModeInit /\ [][RotatorNext]_vars

ConfigNext ==
  \/ RotatorNext
  \/ \E p \in Callers :
       \/ \E arg \in SettingsOffered : CallSetSettings(p, arg)
       \/ \E arg \in StoragesOffered : CallSetStorage(p, arg)
       \/ \E arg \in GeneratorsOffered : CallSetGenerator(p, arg)

\* a Rotator that is reconfigured between its calls
ConfigSpec == ConfigInit /\ [][ConfigNext]_vars

HookNext ==
  \/ RotatorNext
  \/ \E p \in Callers : \E k \in 1..MaxHooksPerCall :
       \/ CallOnStart(p, k)
       \/ CallOnStop(p, k)
       \/ CallBeforeRotation(p, k)
       \/ CallAfterRotation(p, k)

\* a Rotator whose hooks are registered between its calls
HookSpec == HookInit /\ [][HookNext]_vars

StoreNext ==
  \/ Tick
  \/ \E n \in 1..MaxStoreKeys : \E exp \in 0..StoreTime : StoreAdd(n, exp)
  \/ \E n \in 1..MaxStoreKeys : StoreDelete(n)
  \/ \E n \in 1..MaxStoreKeys : StoreGet(n)
  \/ StoreClearDeprecated

\* an in-memory storage used on its own
StoreSpec == StoreInit /\ [][StoreNext]_vars

ProviderNext ==
  \/ \E mode \in ModesTried : \E n \in 0..MaxIds : ProvNew(mode, n)
  \/ \E n \in 0..MaxIds : ProvSet(n)
  \/ ProvGet

\* a KeyIDProvider used on its own
ProviderSpec == ProviderInit /\ [][ProviderNext]_vars

\* the steps inside a call a caller has made: the call returns if it can
InCall(p) ==
  \/ Return(p)
  \/ StartCleaner(p)
  \/ StartTurnOn(p)
  \/ StartGo(p)
  \/ StartStatus(p)
  \/ StopOff(p)
  \/ StopCleaner(p)
  \/ StopStatus(p)
  \/ GetUnlock(p)
  \/ RotateStep(p)

\* the Go scheduler runs every goroutine that can run, and time passes;
\* nothing makes a client call
Fairness ==
  /\ WF_vars(Tick)
  /\ \A w \in Workers : WF_vars(WorkerStep(w))
  /\ \A l \in Loops : WF_vars(LoopStep(l))
  /\ \A p \in Callers : WF_vars(InCall(p))
  /\ \A p \in Callers : WF_vars(AddStep(p))

\* the Rotator with AutoClearExpiredKeys, scheduled fairly
FairSpec == FairInit /\ [][Next]_vars /\ Fairness

\* the keyCleaner driven directly, scheduled fairly
SchedFairSpec == SchedInit /\ [][SchedNext]_vars /\ Fairness

\* =================================================================== claims
\* the getters among the callers that hold a result: GetKeyID or GetKey has
\* selected an id and is about to return it
Selected(p) ==
  /\ pc[p] = "get_unlock"
  /\ res[p].op \in {"GetKeyID", "GetKey"}
  /\ res[p].err = "nil"

\* C1: GetKey and GetKeyID only ever return an id of the active batch, the
\* ids installed by the most recent completed Rotate, under any interleaving
\* of the getters with Rotate; never an id of an older or of a partially
\* installed batch.
C1_SelectionFromActiveBatch ==
  \A p \in Callers : Selected(p) => res[p].id \in activeBatch

\* C1 witness: GetKey returns an id of a batch of two keys while the keys of
\* an older batch are still stored
C1_Witness ==
  \E p \in Callers :
    /\ Selected(p)
    /\ res[p].op = "GetKey"
    /\ res[p].id \in activeBatch
    /\ Cardinality(activeBatch) > 1
    /\ \E k \in storage : k.ID \notin activeBatch

\* the section of Rotate between r.controller.Lock() and the Unlock
InRotate(p) ==
  \/ pc[p] \in {"rot_gen", "rot_persist", "rot_set"}
  \/ /\ pc[p] \in {"add_check", "add_ids_load", "add_ids_store",
                   "add_exp_load", "add_exp_store", "add_signal"}
     /\ add[p].from = "rot"

\* C7: at most one Rotate executes its key-generation, persist and install
\* section at a time, whether called by a client, by Start or by the
\* periodic loop; and the one that does holds the controller's lock.
C7_OneRotateAtATime ==
  \A p, q \in Callers \cup Loops :
    InRotate(p) /\ InRotate(q) => p = q /\ controller.mutex = p

\* C7 witness: the Rotate of Start is in its section while another caller's
\* Rotate waits for the lock
C7_Witness ==
  \E p, q \in Callers \cup Loops :
    /\ InRotate(p)
    /\ rot[p].from = "start"
    /\ pc[q] = "rot_lock"

\* C3: for every key Rotate has persisted, keyCleaner.Add was called exactly
\* once with the key's stored ID and the key's Expires.
C3_OneAddPerStoredKey ==
  \A k \in storage :
    Cardinality({i \in 1..Len(addLog) :
                   addLog[i].id = k.ID /\ addLog[i].exp = k.Expires}) = 1

\* C5: once Start has returned nil (the status is Started), a GetKey call
\* succeeds and its key's Expires is strictly later than the time of the call.
C5_KeyValidAfterStart ==
  [][\A p \in Callers :
       (status = "Started" /\ CallGetKey(p))
         => (res'[p].err = "nil" /\ res'[p].exp > now)]_vars

\* the stored IDs of the key a registration with the cleaner is about: the
\* id as registered, and the ID Rotate stores the key of that id under
KeyIDsOf(id) == {id, KeyID(id[2])}

\* C10: a key registered with Add(id, T) when T was already past is not in
\* the storage once Add has returned, also when Rotate registered it.
C10_ExpiredNeverObservable ==
  \A i \in 1..Len(addLog) :
    addLog[i].past => \A k \in storage : k.ID \notin KeyIDsOf(addLog[i].id)

\* a Rotate by p has installed its batch and has left its section
Rotated(p) == pc[p] = "rot_after" /\ rot[p].ret = "nil"

\* C2: a successful Rotate with RotationKeyCount = N adds exactly N keys to
\* the storage and makes exactly their ids the ids the provider selects
\* from, none of them an id of the batch before; and a key once stored stays
\* in the storage for as long as its Expires has not passed.
C2_RotateInstallsBatch ==
  [][/\ \A p \in Callers \cup Loops :
          /\ (pc[p] = "rot_persist" /\ pc'[p] = "rot_set") =>
               /\ storage \subseteq storage'
               /\ storage' \ storage = SeqRange(rot[p].keys)
               /\ Cardinality(storage' \ storage) = settings.RotationKeyCount
          /\ (pc[p] = "rot_set" /\ pc'[p] = "rot_after") =>
               LET ids == SeqRange(BatchIDs(rot[p].keys)) IN
               /\ Cardinality(ids) = settings.RotationKeyCount
               /\ SeqRange(rot[p].keys) \subseteq storage'
               /\ SeqRange(idProvider'.ids) = ids
               /\ ids \cap SeqRange(idProvider.ids) = {}
               /\ \A o \in ProviderGet(idProvider') :
                    o.err = "nil" /\ o.id \in ids
     /\ \A k \in storage : k.Expires > now' => k \in storage']_vars

\* C2 witness: with the cleaner's worker running, a Rotate has installed a
\* batch of two keys and the keys of the batch before are still stored
C2_Witness ==
  \E p \in Callers \cup Loops :
    /\ Rotated(p)
    /\ \E w \in Workers : pc[w] \notin {"off", "done"}
    /\ Cardinality(activeBatch) > 1
    /\ activeBatch = SeqRange(idProvider.ids)
    /\ \E k \in storage : k.ID \notin activeBatch

\* C6: Start on a Rotator whose status is Started returns
\* ErrRotatorAlreadyRunning and changes nothing: the storage, the active
\* batch, the loops and workers, the controller's context and the hook runs
\* are as they were.
C6_StartWhenStarted ==
  [][\A p \in Callers :
       /\ (status = "Started" /\ CallStart(p)) =>
            /\ res'[p].err = "ErrRotatorAlreadyRunning"
            /\ pc' = [pc EXCEPT ![p] = "return"]
            /\ UNCHANGED <<status, state, controller, storage, idProvider,
                           cleaner, rot, add, wk, until, count, hookRuns,
                           activeBatch>>
       /\ (pc[p] = "return" /\ pc'[p] = "idle") =>
            /\ pc' = [pc EXCEPT ![p] = "idle"]
            /\ UNCHANGED <<status, state, controller, storage, idProvider,
                           cleaner, rot, add, wk, until, count, hookRuns,
                           activeBatch>>]_vars

\* C6 witness: Start is about to return ErrRotatorAlreadyRunning while the
\* loop and the worker of the first Start run
C6_Witness ==
  \E p \in Callers :
    /\ pc[p] = "return"
    /\ res[p].op = "Start"
    /\ res[p].err = "ErrRotatorAlreadyRunning"
    /\ \E l \in Loops : pc[l] \notin {"off", "done"}
    /\ \E w \in Workers : pc[w] \notin {"off", "done"}

\* the keys the Rotates of FairSpec, of one key each, can have stored
AllKeys ==
  [ID : {KeyID(n) : n \in 1..FairRotations},
   Expires : 0..(FairTime + 2 * MaxDuration)]

\* C4: with AutoClearExpiredKeys on a Rotator that stays Started, every
\* stored key leaves the storage once its Expires has passed.
C4_ExpiredKeysCleared ==
  \A k \in AllKeys :
    (k \in storage /\ k.Expires < now /\ status = "Started")
      ~> (k \notin storage \/ status # "Started")

\* C8: the worker never deletes from the storage, before time T, a key that
\* was registered by Add(id, T) when T was not yet past.
C8_NoDeleteBeforeExpiration ==
  [][\A w \in Workers :
       (WorkerDelete(w) /\ wk[w].id \in StorageIDs(storage)) =>
         \A i \in 1..Len(addLog) :
           (addLog[i].id = wk[w].id /\ ~addLog[i].past)
             => addLog[i].exp <= now]_vars

\* the cleaner has been started and not stopped
CleanerRunning(c) == c.ctx # 0 /\ ~CleanerDone(c)

\* C9: on a cleaner that is started and not stopped, every Add(id, T) made
\* when T was not yet past leads to the deletion of the key from the storage.
C9_AddLeadsToDelete ==
  \A n \in 1..SchedAdds :
    ((\E i \in 1..Len(addLog) : addLog[i].id = RawID(n) /\ ~addLog[i].past)
       /\ CleanerRunning(cleaner))
      ~> (RawID(n) \notin StorageIDs(storage) \/ ~CleanerRunning(cleaner))

\* a call of keyCleaner.Add is under way in goroutine p
InAdd(p) ==
  pc[p] \in {"add_check", "add_ids_load", "add_ids_store", "add_exp_load",
             "add_exp_store", "add_signal"}

\* C11: the worker deletes in expiration order: when it deletes the key of
\* an entry, with no Add under way, no queued entry with an earlier
\* expiration still has its key in the storage, whatever the order in which
\* the two were added.
C11_DeleteInExpirationOrder ==
  [][\A w \in Workers :
       (/\ WorkerDelete(w)
        /\ wk[w].id \in StorageIDs(storage)
        /\ \A p \in Procs : ~InAdd(p)) =>
         \A i, j \in 1..Len(addLog) :
           (/\ addLog[i].id = wk[w].id
            /\ ~addLog[i].past
            /\ ~addLog[j].past
            /\ addLog[j].exp < addLog[i].exp
            /\ addLog[j].id \in SeqRange(cleaner.ids))
             => addLog[j].id \notin StorageIDs(storage)]_vars

\* the worker is suspended: in newKeyAdded.Wait() or on <-timer.C
Parked(w) == pc[w] \in {"w_wait", "w_timer"}

\* C12: once Stop() has cancelled the cleaner's context, a worker suspended
\* in the empty-queue wait or in the timer wait can run and exit: it needs
\* neither a later Add nor the timer to fire.
C12_StopUnblocksWorker ==
  \A w \in Workers :
    (CleanerDone(cleaner) /\ Parked(w)) => ENABLED WorkerStep(w)

\* C13: no wakeup is lost: with the cleaner started and not stopped and no
\* Add under way, the worker is not parked in the empty-queue wait while the
\* list holds an entry.
C13_NoLostWakeup ==
  \A w \in Workers :
    (pc[w] = "w_wait" /\ CleanerRunning(cleaner)
       /\ \A p \in Procs : ~InAdd(p))
      => Len(cleaner.ids) = 0

\* C14: after Stop() has returned, the periodic loop launched by the Start
\* before it enters no further Rotate: the n-th loop is the loop of the n-th
\* Start, and it calls Rotate only while fewer than n Stops have completed.
C14_NoRotateAfterStop ==
  [][\A l \in Loops : LoopRotate(l) => hookRuns.onStop < l[2]]_vars

\* the periodic loop l has been launched and has not returned
LoopAlive(l) == pc[l] \notin {"off", "done", "panic"}

\* C15: at most one periodic loop stays alive: once a Stop has completed
\* after the Start that launched it and the loop of a later Start has been
\* launched, a loop does not pass its Disposed() test and go on.
C15_OldLoopDoesNotSurvive ==
  [][\A l \in Loops :
       (LoopCheck(l) /\ pc'[l] = "loop_sleep" /\ hookRuns.onStop >= l[2]) =>
         \A m \in Loops : m[2] > l[2] => ~LoopAlive(m)]_vars

\* C16: of the Start calls made at the same time on a Stopped Rotator at most
\* one starts it: as long as no Stop has run, at most one periodic loop and
\* at most one cleaner worker have been launched.
C16_OneConcurrentStart ==
  hookRuns.onStop = 0 =>
    /\ Cardinality({l \in Loops : pc[l] # "off"}) <= 1
    /\ Cardinality({w \in Workers : pc[w] # "off"}) <= 1

\* the cleaner worker w has been launched and has not returned
WorkerAlive(w) == pc[w] \notin {"off", "done", "panic"}

\* C17: when the initial Rotate of Start fails, Start returns the error and
\* the Rotator is not started: the status is Stopped, no periodic loop runs,
\* no OnStart hook has run for the call, and no cleaner worker is left
\* running without its context cancelled.
C17_FailedStartLeavesNothing ==
  [][\A p \in Callers :
       (RotateAfter(p) /\ rot[p].from = "start" /\ rot[p].ret = "err") =>
         /\ pc'[p] = "idle"
         /\ status' = "Stopped"
         /\ hookRuns'.onStart = hookRuns.onStart
         /\ \A l \in Loops : ~LoopAlive(l)
         /\ \A w \in Workers : WorkerAlive(w) => CleanerDone(cleaner')]_vars

\* a Rotate by p has failed and has left its section
Aborted(p) == pc[p] = "rot_after" /\ rot[p].ret = "err"

C19_LoopEndsOnError ==
  [][/\ \A l \in Loops :
          /\ (Aborted(l) /\ RotateAfter(l)) =>
               /\ pc' = [pc EXCEPT ![l] = "done"]
               /\ UNCHANGED <<status, res>>
          /\ pc[l] = "done" => pc'[l] = "done"
     /\ (status = "Started" /\ status' # "Started") =>
          \E p \in Callers : StopStatus(p)]_vars

\* C19 witness: the loop has ended on an error of its Rotate: it is done
\* while the status is Started and the controller is not disposed
C19_Witness ==
  \E l \in Loops :
    /\ pc[l] = "done"
    /\ status = "Started"
    /\ ~Disposed(controller)
    /\ count.rotations >= 2

\* C20: Stop is idempotent.  Called on a Stopped Rotator it returns with
\* nothing changed and no OnStop hook run.  Called on a Started Rotator it
\* goes on: TurnOff leaves the controller disposed, cleaner.Stop leaves the
\* started cleaner's context cancelled, and the last step sets the status to
\* Stopped and runs the OnStop hooks once; so the next Stop, with no Start
\* between, is a Stop on a Stopped Rotator.
C20_StopIdempotent ==
  [][\A p \in Callers :
       /\ (status = "Stopped" /\ CallStop(p)) =>
            /\ pc' = [pc EXCEPT ![p] = "return"]
            /\ res'[p].op = "Stop"
            /\ UNCHANGED <<status, state, controller, storage, idProvider,
                           cleaner, rot, add, wk, until, count, hookRuns,
                           activeBatch>>
       /\ (pc[p] = "return" /\ res[p].op = "Stop" /\ pc'[p] = "idle") =>
            /\ pc' = [pc EXCEPT ![p] = "idle"]
            /\ UNCHANGED <<status, state, controller, storage, idProvider,
                           cleaner, rot, add, wk, until, count, hookRuns,
                           activeBatch>>
       /\ (status = "Started" /\ CallStop(p)) =>
            /\ pc'[p] = "stop_off"
            /\ UNCHANGED <<status, controller, cleaner, hookRuns>>
       /\ StopOff(p) =>
            /\ Disposed(controller')
            /\ UNCHANGED <<status, cleaner, hookRuns>>
       /\ StopCleaner(p) =>
            /\ cleaner.ctx # 0 => CleanerDone(cleaner')
            /\ UNCHANGED <<status, controller, hookRuns>>
       /\ StopStatus(p) =>
            /\ status' = "Stopped"
            /\ hookRuns'.onStop = hookRuns.onStop + 1
            /\ pc'[p] = "idle"]_vars

\* C20 witness: after Start and a Stop that stopped the Rotator, a second
\* Stop is about to return with the controller disposed, the cleaner
\* cancelled and the OnStop hooks run once
C20_Witness ==
  \E p \in Callers :
    /\ pc[p] = "return"
    /\ res[p].op = "Stop"
    /\ status = "Stopped"
    /\ hookRuns.onStart = 1
    /\ hookRuns.onStop = 1
    /\ Disposed(controller)
    /\ CleanerDone(cleaner)

\* the ids the Gets since the last Set have returned, from the i-th to the
\* j-th
Returned(i, j) == {provUse.log[k].id : k \in i..j}

\* every Get since the last Set has returned an id
AllGot == \A i \in 1..Len(provUse.log) : provUse.log[i].err = "nil"

\* C22: with mode NonRepeating and at least two ids, every Get after a Set
\* returns an id, and no two consecutive Gets return the same id.
C22_NonRepeatingNeverRepeats ==
  (idProvider.mode = NonRepeatingKeyProvidingMode /\ Len(idProvider.ids) >= 2)
    => /\ AllGot
       /\ \A i \in 1..(Len(provUse.log) - 1) :
            provUse.log[i].id # provUse.log[i + 1].id

\* C22 witness: a provider created with mode NonRepeating has been Set
\* again, to two ids, and has answered six Gets
C22_Witness ==
  /\ provUse.mode = NonRepeatingKeyProvidingMode
  /\ idProvider.mode = NonRepeatingKeyProvidingMode
  /\ provUse.sets >= 2
  /\ Len(idProvider.ids) = 2
  /\ Len(provUse.log) = MaxGets
  /\ AllGot

\* C23: with mode NonRepeatingCyclic and a set of n ids, every Get after a
\* Set returns an id, and every block of n consecutive Gets counted from the
\* Set returns each id of the set exactly once, whatever the random draws.
C23_EveryIdOncePerBlock ==
  LET n == Len(idProvider.ids) IN
  (idProvider.mode = NonRepeatingCyclicKeyProvidingMode /\ n >= 1)
    => /\ AllGot
       /\ \A b \in 0..MaxGets :
            (b + 1) * n <= Len(provUse.log)
              => Returned(b * n + 1, (b + 1) * n) = SeqRange(idProvider.ids)

\* C23 witness: a provider created with mode NonRepeatingCyclic has been Set
\* again, to three ids, and has answered two blocks of three Gets
C23_Witness ==
  /\ provUse.mode = NonRepeatingCyclicKeyProvidingMode
  /\ idProvider.mode = NonRepeatingCyclicKeyProvidingMode
  /\ provUse.sets >= 2
  /\ Len(idProvider.ids) = 3
  /\ Len(provUse.log) = 6
  /\ AllGot
  /\ provUse.log[3].id # provUse.log[4].id

\* C24: with mode Cyclic and a set ids[0..n-1], the k-th Get after a Set
\* returns ids[(k-1) mod n].
C24_CyclicInInsertionOrder ==
  LET n == Len(idProvider.ids) IN
  (idProvider.mode = CyclicKeyProvidingMode /\ n >= 1)
    => \A k \in 1..Len(provUse.log) :
         /\ provUse.log[k].err = "nil"
         /\ provUse.log[k].id = idProvider.ids[((k - 1) % n) + 1]

\* KeyIDProvider.Set, the mode AutoKeyProvidingMode stands for with n ids
AutoMode(n) ==
  IF n = 1 THEN RandomKeyProvidingMode
  ELSE IF n \in 2..5 THEN NonRepeatingKeyProvidingMode
  ELSE NonRepeatingCyclicKeyProvidingMode

\* C25: a provider created with mode Auto selects, after every Set, with the
\* strategy of the cardinality of that set, also when the set before was of
\* another cardinality class (sets of two or more ids, where the strategies
\* differ in what they return).
C25_AutoFollowsCardinality ==
  (provUse.sets >= 1 /\ provUse.mode = AutoKeyProvidingMode
     /\ Len(idProvider.ids) >= 2)
    => idProvider.mode = AutoMode(Len(idProvider.ids))

\* C27: Validate rejects a mode outside the five defined values with
\* ErrInvalidKeyProvidingMode, and no Get of a KeyIDProvider fails because of
\* an invalid mode.
C27_InvalidModeNeverAtGet ==
  /\ \A s \in SettingsTried :
       (/\ s.RotationKeyCount >= 1
        /\ s.RotationInterval >= 0
        /\ s.KeyExpiration >= 0
        /\ s.KeyProvidingMode \notin
             AutoKeyProvidingMode..NonRepeatingCyclicKeyProvidingMode)
         => Validate(s) = "ErrInvalidKeyProvidingMode"
  /\ \A i \in 1..Len(provUse.log) :
       provUse.log[i].err # "ErrInvalidKeyProvidingMode"

\* no Rotate of this Rotator has reached its last statement, the one that
\* installs the batch, yet
NeverRotated == activeBatch = {} /\ \A q \in Procs : ~Rotated(q)

\* GetKey or GetKeyID of caller p is about to return
Got(p) == pc[p] = "get_unlock" /\ res[p].op \in {"GetKeyID", "GetKey"}

\* C26: selection before any successful rotation fails with NoKeysGenerated.
\* Get on a provider of any mode whose id set is empty, and GetKey and
\* GetKeyID of a Rotator no Rotate of which has completed, return
\* ErrNoKeysGenerated and no id.
C26_NoKeysBeforeRotation ==
  /\ \A m \in ModesTried :
       \A o \in ProviderGet(NewKeyIDProvider(m, <<>>)) :
         o.err = "ErrNoKeysGenerated" /\ o.id = NoID
  /\ \A p \in Callers :
       (NeverRotated /\ Got(p))
         => res[p].err = "ErrNoKeysGenerated" /\ res[p].id = NoID

\* C26 witness: GetKey returns ErrNoKeysGenerated after a Rotate that failed
\* and before any Rotate that succeeded
C26_Witness ==
  \E p \in Callers :
    /\ NeverRotated
    /\ Got(p)
    /\ res[p].op = "GetKey"
    /\ res[p].err = "ErrNoKeysGenerated"
    /\ count.rotations >= 1
    /\ \A q \in Procs \ {p} : pc[q] \in {"idle", "off", "done"}

\* the strategy the settings name for a batch of n ids
ConfiguredMode(s, n) ==
  IF s.KeyProvidingMode = AutoKeyProvidingMode THEN AutoMode(n)
  ELSE s.KeyProvidingMode

\* C21: the selection strategy GetKey and GetKeyID of a Rotator use is the
\* KeyProvidingMode of its accepted settings, Auto being resolved from the
\* size of the batch: once a batch of two or more keys is installed (with
\* one key every strategy returns that key), the Rotator's provider selects
\* with that mode.
C21_SettingsModeSelects ==
  Len(idProvider.ids) >= 2
    => idProvider.mode = ConfiguredMode(settings, Len(idProvider.ids))

\* what the setters configure
configured == <<settings, storage, generator, cleaner>>

\* settings with a field out of range
Invalid(s) ==
  \/ s.RotationKeyCount < 1
  \/ s.RotationInterval < 0
  \/ s.KeyExpiration < 0
  \/ s.KeyProvidingMode \notin
       AutoKeyProvidingMode..NonRepeatingCyclicKeyProvidingMode

\* C28: on a Rotator that is not running, SetSettings with nil or with
\* invalid settings (RotationKeyCount < 1, a negative RotationInterval or
\* KeyExpiration, a KeyProvidingMode outside the enum) returns
\* ErrInvalidArgument or ErrInvalidSettings wrapping the kind of the field,
\* SetStorage and SetGenerator with nil return ErrInvalidArgument, and each
\* leaves the settings, the storage, the generator and the cleaner exactly as
\* they were.
C28_RejectedSetterChangesNothing ==
  /\ \A arg \in SettingsOffered \ {NilSettings} :
       Invalid(arg) =>
         /\ SetSettingsErr(arg).kind = "ErrInvalidSettings"
         /\ SetSettingsErr(arg).sub \in
              {"ErrInvalidRotationKeyCount", "ErrInvalidRotationInterval",
               "ErrInvalidKeyExpiration", "ErrInvalidKeyProvidingMode"}
  /\ [][\A p \in Callers :
          status # "Started" =>
            /\ \A arg \in SettingsOffered :
                 (CallSetSettings(p, arg)
                    /\ (arg = NilSettings \/ Invalid(arg)))
                   => /\ res'[p].err = IF arg = NilSettings
                                       THEN "ErrInvalidArgument"
                                       ELSE "ErrInvalidSettings"
                      /\ UNCHANGED configured
            /\ CallSetStorage(p, "nil")
                 => res'[p].err = "ErrInvalidArgument" /\ UNCHANGED configured
            /\ CallSetGenerator(p, "nil")
                 => res'[p].err = "ErrInvalidArgument" /\ UNCHANGED configured
       ]_vars

\* C28 witness: SetSettings returns ErrInvalidSettings on a Rotator whose
\* settings an earlier SetSettings has replaced and whose storage holds a
\* batch
C28_Witness ==
  \E p \in Callers :
    /\ pc[p] = "return"
    /\ res[p].op = "SetSettings"
    /\ res[p].err = "ErrInvalidSettings"
    /\ settings.RotationKeyCount = 2
    /\ storage # {}
    /\ cleaner.ids # <<>>

\* the hook points
HookPoints == {"onStart", "onStop", "before", "after"}

\* the hooks of h are called in the order of their registration
InRegistrationOrder(h) ==
  \A i, j \in 1..Len(h) : i < j => Run(h)[i] < Run(h)[j]

\* C29: the hooks of each hook point run in the order in which they were
\* registered, across any number of registration calls: whenever the hooks
\* of a point are run, a hook registered earlier is called before a hook
\* registered later.
C29_HooksInRegistrationOrder ==
  [][\A pt \in HookPoints :
       hookRuns'[pt] > hookRuns[pt] => InRegistrationOrder(hooks[pt])]_vars

\* C30: ClearDeprecated on the in-memory storage removes every key whose
\* Expires is in the past and keeps every key that has not expired; after
\* it, Get on a key that had expired returns ErrKeyNotFound.
C30_ClearDeprecatedRemovesExpired ==
  [][StoreClearDeprecated =>
       \A k \in storage :
         /\ k.Expires < now
              => /\ k \notin storage'
                 /\ StorageGet(storage', k.ID).err = "ErrKeyNotFound"
         /\ k.Expires > now => k \in storage']_vars

\* C31: the in-memory storage tolerates concurrent use: an access to the key
\* map by the Rotator (Add inside Rotate) and a Delete by the cleaner's
\* worker, or any two accesses by different goroutines, are never in the map
\* at the same time.
C31_NoConcurrentMapAccess ==
  \A p, q \in Procs : (AtStorage(p) /\ AtStorage(q)) => p = q

\* C32: the Rotator follows the state machine Stopped/Idle, Started/Idle,
\* Started/Rotating: in every reachable state, State = Rotating implies
\* Status = Started, and when Stop returns the Rotator is in Stopped/Idle.
C32_StateMachine ==
  /\ [](state = "Rotating" => status = "Started")
  /\ [][\A p \in Callers :
          StopStatus(p) => status' = "Stopped" /\ state' = "Idle"]_vars

\* what the next Get of provider P can return
Outcomes(P) == {[id |-> o.id, err |-> o.err] : o \in ProviderGet(P)}

\* C33: Set resets the provider's selection state: right after a Set, the
\* next Get can return what it could return from a provider newly made with
\* the same mode and ids, whatever the Gets before the Set left behind; in
\* particular under Cyclic it returns ids[0].
C33_SetResetsSelection ==
  (provUse.sets >= 1 /\ provUse.log = <<>>)
    => /\ Outcomes(idProvider) =
            Outcomes(NewKeyIDProvider(idProvider.mode, idProvider.ids))
       /\ (idProvider.mode = CyclicKeyProvidingMode
             /\ Len(idProvider.ids) >= 1)
            => Outcomes(idProvider) = {[id |-> idProvider.ids[1],
                                        err |-> "nil"]}

\* C34: with mode NonRepeatingCyclic and at least two ids, no two
\* consecutive Gets after a Set return the same id, the pair of Gets that
\* straddles a refill of the pool included.
C34_CyclicPoolNeverRepeats ==
  (idProvider.mode = NonRepeatingCyclicKeyProvidingMode
     /\ Len(idProvider.ids) >= 2)
    => \A i \in 1..(Len(provUse.log) - 1) :
         /\ provUse.log[i].err = "nil"
         /\ provUse.log[i + 1].err = "nil"
         /\ provUse.log[i].id # provUse.log[i + 1].id

\* C34 witness: a provider in mode NonRepeatingCyclic, Set again to two ids,
\* has answered six Gets, refilling its pool twice between them
C34_Witness ==
  /\ idProvider.mode = NonRepeatingCyclicKeyProvidingMode
  /\ provUse.sets >= 2
  /\ Len(idProvider.ids) = 2
  /\ Len(provUse.log) = MaxGets
  /\ provUse.log[2].id # provUse.log[3].id
  /\ provUse.log[4].id # provUse.log[5].id

\* C35: on a cleaner that is started and never stopped, every Add(id, T)
\* with T in the future causes exactly one storage.Delete(id): the worker
\* never deletes an id a second time (every id is added once and is in the
\* storage until its Delete), and the Delete of every such Add comes.
C35_OneDeletePerAdd ==
  /\ [][\A w \in Workers :
          (WorkerDelete(w) /\ CleanerRunning(cleaner))
            => wk[w].id \in StorageIDs(storage)]_vars
  /\ \A n \in 1..SchedAdds :
       []((\E i \in 1..Len(addLog) :
             addLog[i].id = RawID(n) /\ ~addLog[i].past)
            => <>(RawID(n) \notin StorageIDs(storage)
                    \/ ~CleanerRunning(cleaner)))

\* C36: for every sequence of Set and Get calls on a provider in a valid
\* mode, a Set with fewer ids after Gets on a larger set included, Get never
\* indexes outside the current id set and, with a non-empty set, returns a
\* member of it.
C36_GetStaysInRange ==
  (provUse.mode \in
     AutoKeyProvidingMode..NonRepeatingCyclicKeyProvidingMode
     /\ Len(idProvider.ids) >= 1)
    => \A i \in 1..Len(provUse.log) :
         /\ provUse.log[i].err = "nil"
         /\ provUse.log[i].id \in SeqRange(idProvider.ids)

\* C37: the AfterRotation hooks run exactly when Rotate succeeds: when the
\* generation of a key or the write to the storage fails, Rotate returns the
\* error and runs no AfterRotation hook.
C37_AfterHooksOnlyOnSuccess ==
  [][\A p \in Procs :
       RotateAfter(p)
         => (hookRuns'.after > hookRuns.after <=> rot[p].ret = "nil")]_vars

\* C38: every entry the cleaner holds refers to a key that was persisted: a
\* Rotate that aborts because the generator or the write to the storage
\* failed leaves no cleaner entry for a key of the aborted batch.
C38_NoEntryForAbortedBatch ==
  \A p \in Procs :
    Aborted(p)
      => \A i \in 1..Len(rot[p].keys) :
           \A id \in SeqRange(cleaner.ids) :
             KeyID(id[2]) # rot[p].keys[i].ID

\* C39: the cleaner's working list stays consistent under every interleaving
\* of Add, called from a thread that rotates, with the worker: whenever the
\* worker reads or pops the head entry, the id list and the expiration list
\* have the same length and the head expiration is the one that was added
\* with the head id.
C39_ListsConsistentAtHead ==
  \A w \in Workers :
    pc[w] \in {"w_peek", "w_del_id"}
      => /\ Len(cleaner.ids) = Len(cleaner.expirations)
         /\ Len(cleaner.ids) >= 1
              => \E i \in 1..Len(addLog) :
                   /\ addLog[i].id = cleaner.ids[1]
                   /\ addLog[i].exp = cleaner.expirations[1]

\* goroutine p runs hooks of Rotate in this step: the BeforeRotation hooks
\* as it enters Rotate, the AfterRotation hooks as it leaves
RunsRotateHooks(p) ==
  \/ RotateAfter(p)
  \/ pc[p] # "rot_lock" /\ pc'[p] = "rot_lock"

\* C40: a BeforeRotation or AfterRotation hook that calls GetKey, GetKeyID or
\* GetKeyByID on the same Rotator returns without deadlock, for every Rotate:
\* the goroutine that runs the hooks does not hold the controller's lock
\* while they run, and a lock another goroutine holds is released (unless
\* the program has ended in a panic).
C40_HooksCanTakeLock ==
  /\ [][\A p \in Procs :
          RunsRotateHooks(p)
            => controller.mutex # p /\ controller'.mutex # p]_vars
  /\ [](controller.mutex # NoProc
          => <>(controller.mutex = NoProc \/ \E q \in Procs : pc[q] = "panic"))

\* C40 witness: the periodic loop is about to run the AfterRotation hooks of
\* a Rotate that succeeded while a caller holds the controller's lock
C40_Witness ==
  \E p \in Loops : \E q \in Callers :
    /\ pc[p] = "rot_after"
    /\ rot[p].ret = "nil"
    /\ controller.mutex = q

====
